---- MODULE Spec2Model ----
(***************************************************************************)
(* Model of the NOC data seeding pipeline: the batch executor              *)
(* (src/utils/batch-processor.js), the resume calculator                   *)
(* (src/utils/resume-calculator.js), the five entity seeders and the run   *)
(* coordinator (src/seed.js).                                              *)
(*                                                                         *)
(* Records of a collection are addressed by their 1-based position; the    *)
(* JavaScript index of data[k] is k - 1.                                   *)
(***************************************************************************)
EXTENDS Integers, Sequences, FiniteSets, TLC

\* ------------------------------------------------------------------ bounds
MaxLen == 4         \* longest collection handed to the executor in SpecBatch
MaxSkip == 3        \* largest skip offset tried in SpecBatch
MaxBatch == 2       \* largest batch size tried
MaxPrograms == 2    \* longest programs file
MaxUnitGroups == 1  \* longest unit groups file
MaxOutlooks == 1    \* longest outlook sheet (data rows)
MaxKey == 2         \* program ids range over 1..MaxKey
MaxStale == 2       \* a store found at start holds rows with keys 1..n, n <= MaxStale
MaxFaults == 1      \* failures injected in one behaviour
MaxRuns == 2        \* runs of main in one behaviour

\* PARALLEL_BATCHES, default of the environment configuration
PARALLEL_BATCHES == 2

\* ------------------------------------------------------------------ state
VARIABLES
  data,         \* the collection given to processInParallelBatches
  operationName,\* its operationName argument
  batchSize,    \* its batchSize argument
  skipCount,    \* its skipCount argument
  epc,          \* position in processInParallelBatches: idle, loop, mega, done
  megaOffset,   \* the loop variable i of the mega-batch loop
  groups,       \* the batches of the current mega-batch (batchPromises)
  created,      \* local counter created
  skipped,      \* local counter skipped
  processed,    \* local counter processed
  ret,          \* the value returned: {created, skipped}
  checkpoints,  \* calls of saveProgress made by the executor, in order
  calls,        \* history: how often each position was given to the processor
  tally,        \* history: how many processor calls ended in each result
  viuPrograms,  \* data/viu_programs.json
  unitGroups,   \* data/unit_groups.json
  outlookRows,  \* data rows of data/2024-2026-3-year-outlooks.xlsx
  unreadable,   \* the source files that cannot be read during this run
  store,        \* the tables of the database
  mpc,          \* position in main
  entity,       \* index in Order of the seeder main is at
  resumeConfig, \* the mapping returned by calculateResumePositions
  results,      \* results of executeSeedingOperations, per entity
  run,          \* number of the current run of main
  faults,       \* failures injected so far
  hist,         \* history of the runs, read by the properties only
  BATCH_SIZE,   \* the configured BATCH_SIZE
  SEED_CONFIG,  \* the configured SEED_CONFIG: which entities are seeded
  hasSomeEmpty, \* what the store answers to the filter { hasSome: [] }: "all" or "none"
  tracker,      \* the counters of the progress tracker: totalRecordsCreated, totalRecordsSkipped
  report,       \* the object main returned, NoReport while it runs
  exitStatus,   \* exit status of the process started from seed.js: <<>>, then <<status>>
  probeRow,     \* the record given to the processor in SpecProcessor
  issued,       \* the store calls that processor call issued, in order
  outcome       \* what that processor call returned

execVars == <<data, operationName, batchSize, skipCount, epc, megaOffset, groups, created,
              skipped, processed, ret, checkpoints, calls, tally>>

entryVars == <<report, exitStatus>>

probeVars == <<probeRow, issued, outcome>>

mainVars == <<viuPrograms, unitGroups, outlookRows, unreadable, store, mpc, entity,
              resumeConfig, results, run, faults, hist, BATCH_SIZE, SEED_CONFIG, hasSomeEmpty, tracker, entryVars, probeVars>>

vars == <<execVars, mainVars>>

\* ------------------------------------------------------------------ helpers
Min(a, b) == IF a < b THEN a ELSE b

RECURSIVE SumSeq(_)
SumSeq(s) == IF s = <<>> THEN 0 ELSE Head(s) + SumSeq(Tail(s))

\* Array.prototype.slice(from, to) for 0 <= from, on 0-based indices.
Slice(s, from, to) == SubSeq(s, from + 1, Min(to, Len(s)))

\* Results of one processor call; "throw" is a rejected promise.
Results == {"created", "skipped", "error", "throw"}

\* Mutant: the slice starts one record too early.
ActualData_OffByOne(d, skip) == IF skip > 0 THEN Slice(d, skip - 1, Len(d)) ELSE d

\* const actualData = skipCount > 0 ? data.slice(skipCount) : data
ActualData(d, skip) == IF skip > 0 THEN Slice(d, skip, Len(d)) ELSE d

\* Number of leading positions of d that actualData leaves out.
Dropped(d, skip) == Len(d) - Len(ActualData(d, skip))

\* megaBatch = actualData.slice(i, i + batchSize * PARALLEL_BATCHES), as positions of data
MegaBatch(d, skip, bs, off) ==
  LET n == Len(ActualData(d, skip))
      hi == Min(off + bs * PARALLEL_BATCHES, n)
  IN  [k \in 1..(hi - off) |-> Dropped(d, skip) + off + k]

\* Mutant: every record of the mega-batch is a batch of its own.
Batches_Singles(mb, bs) == [b \in 1..Len(mb) |-> <<mb[b]>>]

\* batches.push(megaBatch.slice(j, j + batchSize)) for j = 0, batchSize, ...
Batches(mb, bs) ==
  LET nb == (Len(mb) + bs - 1) \div bs
  IN  [b \in 1..nb |-> Slice(mb, (b - 1) * bs, b * bs)]

\* A batch task when batches.map starts it.
NewGroup(items) ==
  [items |-> items, pos |-> 0, phase |-> "try", inflight |-> FALSE,
   batchCreated |-> 0, batchSkipped |-> 0]

\* if (result === 'created') batchCreated++
TallyCreated(res) == IF res = "created" THEN 1 ELSE 0

\* else if (result === 'skipped') batchSkipped++ ; catch (itemError) batchSkipped++
TallySkipped(phase, res) ==
  IF res = "skipped" \/ (phase = "catch" /\ res = "throw") THEN 1 ELSE 0

\* Mutant: a throw in the fallback pass ends the batch.
AfterCall_GiveUp(g, res) ==
  IF g.phase = "try" /\ res = "throw"
  THEN [g EXCEPT !.phase = "catch", !.pos = 0, !.inflight = FALSE]
  ELSE IF res = "throw"
  THEN [g EXCEPT !.phase = "done", !.inflight = FALSE,
                 !.batchSkipped = g.batchSkipped + 1]
  ELSE LET p == g.pos + 1
       IN  [g EXCEPT !.pos = p,
                     !.inflight = FALSE,
                     !.phase = IF p = Len(g.items) THEN "done" ELSE g.phase,
                     !.batchCreated = g.batchCreated + TallyCreated(res),
                     !.batchSkipped = g.batchSkipped + TallySkipped(g.phase, res)]

\* The group after one processor call has settled with result res.
AfterCall(g, res) ==
  IF g.phase = "try" /\ res = "throw"
  THEN \* catch (error): for (const item of batch) starts over
       [g EXCEPT !.phase = "catch", !.pos = 0, !.inflight = FALSE]
  ELSE LET p == g.pos + 1
       IN  [g EXCEPT !.pos = p,
                     !.inflight = FALSE,
                     !.phase = IF p = Len(g.items) THEN "done" ELSE g.phase,
                     !.batchCreated = g.batchCreated + TallyCreated(res),
                     !.batchSkipped = g.batchSkipped + TallySkipped(g.phase, res)]

\* ------------------------------------------------------------------ executor
\* Entry of processInParallelBatches(d, bs, processor, name, skip)
ExecBegin(d, bs, name, skip) ==
  /\ data' = d
  /\ operationName' = name
  /\ batchSize' = bs
  /\ skipCount' = skip
  /\ epc' = "loop"
  /\ megaOffset' = 0
  /\ groups' = <<>>
  /\ created' = 0
  /\ skipped' = 0
  /\ processed' = 0
  /\ ret' = [created |-> 0, skipped |-> 0]
  /\ checkpoints' = <<>>
  /\ calls' = [k \in 1..Len(d) |-> 0]
  /\ tally' = [r \in Results |-> 0]

\* Loop head with i < actualTotal: cut the mega-batch and start its batches.
MegaStart ==
  /\ epc = "loop"
  /\ megaOffset < Len(ActualData(data, skipCount))
  /\ groups' = LET bs == Batches(MegaBatch(data, skipCount, batchSize, megaOffset), batchSize)
               IN  [b \in 1..Len(bs) |-> NewGroup(bs[b])]
  /\ epc' = "mega"
  /\ UNCHANGED <<data, operationName, batchSize, skipCount, megaOffset, created, skipped,
                 processed, ret, checkpoints, calls, tally>>

\* await processor(item): the call is issued.
CallStart(b) ==
  /\ epc = "mega"
  /\ b \in 1..Len(groups)
  /\ groups[b].phase \in {"try", "catch"}
  /\ ~groups[b].inflight
  /\ groups' = [groups EXCEPT ![b].inflight = TRUE]
  /\ calls' = [calls EXCEPT ![groups[b].items[groups[b].pos + 1]] = @ + 1]
  /\ UNCHANGED <<data, operationName, batchSize, skipCount, epc, megaOffset, created, skipped,
                 processed, ret, checkpoints, tally>>

\* The call settles with result res; the batch counts it and moves on.
CallEnd(b, res) ==
  /\ epc = "mega"
  /\ b \in 1..Len(groups)
  /\ groups[b].inflight
  /\ groups' = [groups EXCEPT ![b] = AfterCall(groups[b], res)]
  /\ tally' = [tally EXCEPT ![res] = @ + 1]
  /\ UNCHANGED <<data, operationName, batchSize, skipCount, epc, megaOffset, created, skipped,
                 processed, ret, checkpoints, calls>>

\* Mutant: a failing write of the progress file ends the mega-batch loop.
MegaJoin_StopsOnFailedWrite(written) ==
  /\ epc = "mega"
  /\ \A b \in 1..Len(groups) : groups[b].phase = "done"
  /\ created' = created + SumSeq([b \in 1..Len(groups) |-> groups[b].batchCreated])
  /\ skipped' = skipped + SumSeq([b \in 1..Len(groups) |-> groups[b].batchSkipped])
  /\ processed' = processed + SumSeq([b \in 1..Len(groups) |-> Len(groups[b].items)])
  /\ checkpoints' = Append(checkpoints,
                           [operation |-> operationName, processed |-> skipCount + processed',
                            total |-> Len(data), written |-> written])
  /\ megaOffset' = IF written THEN megaOffset + batchSize * PARALLEL_BATCHES ELSE Len(data)
  /\ groups' = <<>>
  /\ epc' = "loop"
  /\ UNCHANGED <<data, operationName, batchSize, skipCount, ret, calls, tally>>

\* Mutant: the checkpoint leaves out the skip offset.
MegaJoin_NoSkip(written) ==
  /\ epc = "mega"
  /\ \A b \in 1..Len(groups) : groups[b].phase = "done"
  /\ created' = created + SumSeq([b \in 1..Len(groups) |-> groups[b].batchCreated])
  /\ skipped' = skipped + SumSeq([b \in 1..Len(groups) |-> groups[b].batchSkipped])
  /\ processed' = processed + SumSeq([b \in 1..Len(groups) |-> Len(groups[b].items)])
  /\ checkpoints' = Append(checkpoints,
                           [operation |-> operationName, processed |-> processed',
                            total |-> Len(data), written |-> written])
  /\ megaOffset' = megaOffset + batchSize * PARALLEL_BATCHES
  /\ groups' = <<>>
  /\ epc' = "loop"
  /\ UNCHANGED <<data, operationName, batchSize, skipCount, ret, calls, tally>>

\* Mutant: the mega-batch is left as soon as one of its batches has settled.
MegaJoin_Early(written) ==
  /\ epc = "mega"
  /\ \E b \in 1..Len(groups) : groups[b].phase = "done"
  /\ created' = created + SumSeq([b \in 1..Len(groups) |-> groups[b].batchCreated])
  /\ skipped' = skipped + SumSeq([b \in 1..Len(groups) |-> groups[b].batchSkipped])
  /\ processed' = processed + SumSeq([b \in 1..Len(groups) |-> Len(groups[b].items)])
  /\ checkpoints' = Append(checkpoints,
                           [operation |-> operationName, processed |-> skipCount + processed',
                            total |-> Len(data), written |-> written])
  /\ megaOffset' = megaOffset + batchSize * PARALLEL_BATCHES
  /\ groups' = <<>>
  /\ epc' = "loop"
  /\ UNCHANGED <<data, operationName, batchSize, skipCount, ret, calls, tally>>

\* Mutant: the loop index advances by one batch, not by one mega-batch.
MegaJoin_StepsOneBatch(written) ==
  /\ epc = "mega"
  /\ \A b \in 1..Len(groups) : groups[b].phase = "done"
  /\ created' = created + SumSeq([b \in 1..Len(groups) |-> groups[b].batchCreated])
  /\ skipped' = skipped + SumSeq([b \in 1..Len(groups) |-> groups[b].batchSkipped])
  /\ processed' = processed + SumSeq([b \in 1..Len(groups) |-> Len(groups[b].items)])
  /\ checkpoints' = Append(checkpoints,
                           [operation |-> operationName, processed |-> skipCount + processed',
                            total |-> Len(data), written |-> written])
  /\ megaOffset' = megaOffset + batchSize
  /\ groups' = <<>>
  /\ epc' = "loop"
  /\ UNCHANGED <<data, operationName, batchSize, skipCount, ret, calls, tally>>

\* await Promise.all(batchPromises); aggregate; saveProgress; i += batchSize * PARALLEL_BATCHES.
\* saveProgress catches a failing write of the progress file: written tells
\* whether the file was written.
MegaJoin(written) ==
  /\ epc = "mega"
  /\ \A b \in 1..Len(groups) : groups[b].phase = "done"
  /\ created' = created + SumSeq([b \in 1..Len(groups) |-> groups[b].batchCreated])
  /\ skipped' = skipped + SumSeq([b \in 1..Len(groups) |-> groups[b].batchSkipped])
  /\ processed' = processed + SumSeq([b \in 1..Len(groups) |-> Len(groups[b].items)])
  /\ checkpoints' = Append(checkpoints,
                           [operation |-> operationName, processed |-> skipCount + processed',
                            total |-> Len(data), written |-> written])
  /\ megaOffset' = megaOffset + batchSize * PARALLEL_BATCHES
  /\ groups' = <<>>
  /\ epc' = "loop"
  /\ UNCHANGED <<data, operationName, batchSize, skipCount, ret, calls, tally>>

\* Loop exit: return { created, skipped }
ExecReturn ==
  /\ epc = "loop"
  /\ megaOffset >= Len(ActualData(data, skipCount))
  /\ ret' = [created |-> created, skipped |-> skipped]
  /\ epc' = "done"
  /\ UNCHANGED <<data, operationName, batchSize, skipCount, megaOffset, groups, created, skipped,
                 processed, checkpoints, calls, tally>>

\* ------------------------------------------------------------------ source files
Files == {"viu_programs.json", "unit_groups.json", "outlooks.xlsx"}

\* A record of viu_programs.json; area = 0 is a record without program_area.
ProgramRecs == [nid : 1..MaxKey, area : 0..1, nocs : {<<>>, <<1>>}]

\* A record of unit_groups.json; noc = 0 is a record without noc_number.
UnitGroupRecs == [noc : 0..1, sections : {<<1>>}]

\* A data row of the outlook sheet; code = 0 is a row without NOC_Code.
OutlookRecs == [code : 0..1, region : {1}]

SeqsUpTo(S, n) == UNION {[1..m -> S] : m \in 0..n}

\* Program ids are named in the order in which the file first mentions them.
FirstAppearance(progs) ==
  \A k \in 1..Len(progs) :
    progs[k].nid = 1 \/ (\E j \in 1..(k - 1) : progs[j].nid = progs[k].nid - 1)

\* Each record with its position in the file; the position stands for the
\* record's non-key attributes, which differ from record to record.
Stamped(s) == [k \in 1..Len(s) |-> [rec |-> s[k], v |-> k]]

\* programAreasMap: the distinct program_area.nid in order of first insertion
RECURSIVE AreasOf(_)
AreasOf(progs) ==
  IF progs = <<>> THEN <<>>
  ELSE LET rest == AreasOf(SubSeq(progs, 1, Len(progs) - 1))
           a == progs[Len(progs)].area
       IN  IF a = 0 \/ (\E k \in 1..Len(rest) : rest[k] = a) THEN rest ELSE Append(rest, a)

\* totalLinks += program.known_noc_groups.length
TotalLinks(progs) == SumSeq([k \in 1..Len(progs) |-> Len(progs[k].nocs)])

\* ------------------------------------------------------------------ store
EmptyStore ==
  [programArea |-> {}, program |-> {}, nocUnitGroup |-> {}, nocSection |-> {},
   economicRegion |-> {}, outlook |-> {}, programNocLink |-> {}]

\* A store left by earlier runs on other source files: n rows in each keyed table.
StoreWith(n) ==
  [programArea |-> 1..n,
   program |-> {[nid |-> k, area |-> 1, nocs |-> <<1>>, v |-> 0] : k \in 1..n},
   nocUnitGroup |-> {[noc |-> k, v |-> 0] : k \in 1..n},
   nocSection |-> {},
   economicRegion |-> IF n > 0 THEN {1} ELSE {},
   outlook |-> {[code |-> k, region |-> 1, v |-> 0] : k \in 1..n},
   programNocLink |-> {[programId |-> k, nocCode |-> 1] : k \in 1..n}]

ProgramKeys(st) == {r.nid : r \in st.program}
UnitGroupKeys(st) == {r.noc : r \in st.nocUnitGroup}
OutlookKeys(st) == {<<r.code, r.region>> : r \in st.outlook}

\* Mutant: the upsert replaces the table by the row it writes.
UpsertProgram_ReplaceAll(st, row) == [st EXCEPT !.program = {row}]

\* prisma.program.upsert({ where: { nid }, update, create })
UpsertProgram(st, row) ==
  [st EXCEPT !.program = {r \in @ : r.nid # row.nid} \cup {row}]

\* prisma.nocUnitGroup.upsert({ where: { nocCode }, update, create })
UpsertUnitGroup(st, row) ==
  [st EXCEPT !.nocUnitGroup = {r \in @ : r.noc # row.noc} \cup {row}]

\* prisma.outlook.upsert({ where: { composite key }, update, create })
UpsertOutlook(st, row) ==
  [st EXCEPT !.outlook = {r \in @ : <<r.code, r.region>> # <<row.code, row.region>>} \cup {row}]

\* ------------------------------------------------------------------ resume calculator
CountKeys == {"programAreas", "programs", "nocUnitGroups", "nocSections",
              "economicRegions", "outlooks", "programNocLinks"}

\* prisma.<model>.count()
TableCount(st, c) ==
  CASE c = "programAreas" -> Cardinality(st.programArea)
    [] c = "programs" -> Cardinality(st.program)
    [] c = "nocUnitGroups" -> Cardinality(st.nocUnitGroup)
    [] c = "nocSections" -> Cardinality(st.nocSection)
    [] c = "economicRegions" -> Cardinality(st.economicRegion)
    [] c = "outlooks" -> Cardinality(st.outlook)
    [] c = "programNocLinks" -> Cardinality(st.programNocLink)

\* Mutant: one failing count query zeroes every count.
CountOrDefault_AllZero(st, c, failing) == IF failing # {} THEN 0 ELSE TableCount(st, c)

\* Mutant: a failing count query leaves -1 instead of 0.
CountOrDefault_Negative(st, c, failing) == IF c \in failing THEN 0 - 1 ELSE TableCount(st, c)

\* try { counts.x = await prisma.x.count() } catch (error) { counts.x = 0 }
CountOrDefault(st, c, failing) == IF c \in failing THEN 0 ELSE TableCount(st, c)

GetExistingRecordCounts(st, failing) ==
  [c \in CountKeys |-> CountOrDefault(st, c, failing)]

\* The seeders in the order of executeSeedingOperations
Order == <<"PROGRAM_AREAS", "PROGRAMS", "NOC_UNIT_GROUPS", "OUTLOOKS", "PROGRAM_NOC_LINKS">>

\* SEED_CONFIG when no SEED_* variable of the environment is set
AllEnabled == [k \in {Order[i] : i \in 1..Len(Order)} |-> TRUE]

SkipKeys == {"SKIP_PROGRAM_AREAS", "SKIP_PROGRAMS", "SKIP_NOC_UNIT_GROUPS",
             "SKIP_OUTLOOKS", "SKIP_PROGRAM_NOC_LINKS"}

SkipKeyOf(name) ==
  CASE name = "PROGRAM_AREAS" -> "SKIP_PROGRAM_AREAS"
    [] name = "PROGRAMS" -> "SKIP_PROGRAMS"
    [] name = "NOC_UNIT_GROUPS" -> "SKIP_NOC_UNIT_GROUPS"
    [] name = "OUTLOOKS" -> "SKIP_OUTLOOKS"
    [] name = "PROGRAM_NOC_LINKS" -> "SKIP_PROGRAM_NOC_LINKS"

\* The count each skip value is taken from
CountKeyOf(k) ==
  CASE k = "SKIP_PROGRAM_AREAS" -> "programAreas"
    [] k = "SKIP_PROGRAMS" -> "programs"
    [] k = "SKIP_NOC_UNIT_GROUPS" -> "nocUnitGroups"
    [] k = "SKIP_OUTLOOKS" -> "outlooks"
    [] k = "SKIP_PROGRAM_NOC_LINKS" -> "programNocLinks"

\* The file each block of validateSkipValues reads
FileOf(k) ==
  CASE k \in {"SKIP_PROGRAM_AREAS", "SKIP_PROGRAMS", "SKIP_PROGRAM_NOC_LINKS"} -> "viu_programs.json"
    [] k = "SKIP_NOC_UNIT_GROUPS" -> "unit_groups.json"
    [] k = "SKIP_OUTLOOKS" -> "outlooks.xlsx"

\* The size each block of validateSkipValues derives from the source
SourceSize(k, progs, ugs, rows) ==
  CASE k = "SKIP_PROGRAM_AREAS" -> Len(AreasOf(progs))
    [] k = "SKIP_PROGRAMS" -> Len(progs)
    [] k = "SKIP_NOC_UNIT_GROUPS" -> Len(ugs)
    [] k = "SKIP_OUTLOOKS" -> Len(rows)
    [] k = "SKIP_PROGRAM_NOC_LINKS" -> TotalLinks(progs)

\* Mutant: a file that cannot be read resets the skip value to 0.
ValidateOne_ZeroWhenUnread(skip, size, readOk) ==
  IF readOk THEN (IF skip > size THEN size ELSE skip) ELSE 0

\* One try block of validateSkipValues: cap at the size when the file was read,
\* keep the value when reading threw.
ValidateOne(skip, size, readOk) ==
  IF readOk THEN (IF skip > size THEN size ELSE skip) ELSE skip

ValidateSkipValues(cfg, progs, ugs, rows, unread) ==
  [k \in DOMAIN cfg |->
     ValidateOne(cfg[k], SourceSize(k, progs, ugs, rows), FileOf(k) \notin unread)]

ZeroSkips == [k \in SkipKeys |-> 0]

\* calculateResumePositions: neither helper throws (each query and each file
\* read has its own try/catch), so the catch that returns ZeroSkips is not entered.
CalculateResumePositions(st, failing, progs, ugs, rows, unread) ==
  LET existingCounts == GetExistingRecordCounts(st, failing)
      cfg == [k \in SkipKeys |-> existingCounts[CountKeyOf(k)]]
  IN  ValidateSkipValues(cfg, progs, ugs, rows, unread)

\* ------------------------------------------------------------------ progress tracker
\* The counters after initializeProgress()
NoTracker == [totalRecordsCreated |-> 0, totalRecordsSkipped |-> 0]

\* Mutant: the increment writes back a value read before another update.
IncrementSkipped_Stale(t) == [t EXCEPT !.totalRecordsSkipped = 1]

\* function incrementCreated() { totalRecordsCreated++ }
IncrementCreated(t) == [t EXCEPT !.totalRecordsCreated = @ + 1]

\* function incrementSkipped() { totalRecordsSkipped++ }
IncrementSkipped(t) == [t EXCEPT !.totalRecordsSkipped = @ + 1]

\* safeDbOperation: incrementCreated() after withRetry returned,
\* incrementSkipped() first thing in the catch block
SafeDbTracker(t, ok) == IF ok THEN IncrementCreated(t) ELSE IncrementSkipped(t)

\* c calls of incrementCreated and s calls of incrementSkipped, in any order
RECURSIVE Incremented(_, _, _)
Incremented(t, c, s) ==
  IF c > 0 THEN Incremented(IncrementCreated(t), c - 1, s)
  ELSE IF s > 0 THEN Incremented(IncrementSkipped(t), c, s - 1)
  ELSE t

\* ------------------------------------------------------------------ processors
\* What one processor call can do: its result, the store it leaves, and the
\* number of failed store calls it took (cost).
Outcome(res, st, cost) == [res |-> res, store |-> st, cost |-> cost]

\* seedProgramAreas.processor: result ? 'created' : 'error'
AreaProcessor(area, st) ==
  { Outcome("created", [st EXCEPT !.programArea = @ \cup {area}], 0),
    Outcome("error", st, 1) }

\* Mutant: the program is upserted without looking up its program area.
ProgramProcessor_NoAreaCheck(item, st) ==
  { Outcome("created",
            UpsertProgram(st, [nid |-> item.rec.nid, area |-> item.rec.area,
                               nocs |-> item.rec.nocs, v |-> item.v]), 0),
    Outcome("error", st, 1) }

\* Mutant: the program is upserted before its program area is looked up.
ProgramProcessor_LateAreaCheck(item, st) ==
  { Outcome("throw", st, 1) } \cup
  ( IF item.rec.area \notin st.programArea
    THEN { Outcome("skipped",
                   UpsertProgram(st, [nid |-> item.rec.nid, area |-> item.rec.area,
                                      nocs |-> item.rec.nocs, v |-> item.v]), 0) }
    ELSE { Outcome("created",
                   UpsertProgram(st, [nid |-> item.rec.nid, area |-> item.rec.area,
                                      nocs |-> item.rec.nocs, v |-> item.v]), 0),
           Outcome("error", st, 1) } )

\* seedPrograms.processor: findUnique is not wrapped and may reject
ProgramProcessor(item, st) ==
  { Outcome("throw", st, 1) } \cup
  ( IF item.rec.area \notin st.programArea
    THEN { Outcome("skipped", st, 0) }
    ELSE { Outcome("created",
                   UpsertProgram(st, [nid |-> item.rec.nid, area |-> item.rec.area,
                                      nocs |-> item.rec.nocs, v |-> item.v]), 0),
           Outcome("error", st, 1) } )

\* The titles of a sequence of sections
Titles(sections) == {sections[k] : k \in 1..Len(sections)}

\* seedNocUnitGroups.processor: the sections are upserted only after the unit
\* group's own upsert returned a row; a failed section upsert changes nothing.
UnitGroupProcessor(item, st) ==
  IF item.rec.noc = 0
  THEN { Outcome("skipped", st, 0) }
  ELSE { Outcome("error", st, 1) } \cup
       { Outcome("created",
                 [UpsertUnitGroup(st, [noc |-> item.rec.noc, v |-> item.v])
                    EXCEPT !.nocSection =
                      @ \cup {[noc |-> item.rec.noc, title |-> t] :
                                t \in Titles(item.rec.sections) \ failed}],
                 Cardinality(failed)) : failed \in SUBSET Titles(item.rec.sections) }

\* seedOutlooks.processor
OutlookProcessor(item, st) ==
  IF item.rec.code = 0 \/ item.rec.region = 0
  THEN { Outcome("skipped", st, 0) }
  ELSE { Outcome("created",
                 UpsertOutlook(st, [code |-> item.rec.code, region |-> item.rec.region,
                                    v |-> item.v]), 0),
         Outcome("error", st, 1) }

\* Mutant: the link is upserted without looking up its unit group.
LinkProcessor_NoNocCheck(link, st) ==
  { Outcome("created", [st EXCEPT !.programNocLink = @ \cup {link}], 0),
    Outcome("error", st, 1) }

\* createProgramNocLinks.processor: findUnique is not wrapped and may reject
LinkProcessor(link, st) ==
  { Outcome("throw", st, 1) } \cup
  ( IF link.nocCode \notin UnitGroupKeys(st)
    THEN { Outcome("skipped", st, 0) }
    ELSE { Outcome("created", [st EXCEPT !.programNocLink = @ \cup {link}], 0),
           Outcome("error", st, 1) } )

\* Every processor returns 'skipped', or rejects, before its first upsert, and
\* returns 'created' or 'error' after it.
UpsertIssued(res) == res \in {"created", "error"}

\* The counters after one processor call that ended in out: a processor that
\* skips calls incrementSkipped(), and every upsert goes through safeDbOperation
ProcessorTracker(t, name, item, out) ==
  CASE out.res = "throw" -> t
    [] out.res = "skipped" -> IncrementSkipped(t)
    [] out.res = "error" -> SafeDbTracker(t, FALSE)
    [] out.res = "created" ->
         IF name = "NOC_UNIT_GROUPS"
         THEN Incremented(SafeDbTracker(t, TRUE),
                          Cardinality(Titles(item.rec.sections)) - out.cost, out.cost)
         ELSE SafeDbTracker(t, TRUE)

Processor(name, item, st) ==
  CASE name = "PROGRAM_AREAS" -> AreaProcessor(item, st)
    [] name = "PROGRAMS" -> ProgramProcessor(item, st)
    [] name = "NOC_UNIT_GROUPS" -> UnitGroupProcessor(item, st)
    [] name = "OUTLOOKS" -> OutlookProcessor(item, st)
    [] name = "PROGRAM_NOC_LINKS" -> LinkProcessor(item, st)

\* ------------------------------------------------------------------ seeders
\* regionsMap of seedOutlooks: the distinct region codes of all rows
RegionsOf(rows) == {rows[k].region : k \in 1..Len(rows)} \ {0}

\* The orders in which findMany can return a set of rows
Orders(S) == {s \in [1..Cardinality(S) -> S] : \A r \in S : \E k \in DOMAIN s : s[k] = r}

\* allLinks of createProgramNocLinks: each program's knownNocGroups, flattened
RECURSIVE AllLinks(_)
AllLinks(programs) ==
  IF programs = <<>> THEN <<>>
  ELSE LET p == Head(programs)
       IN  [k \in 1..Len(p.nocs) |-> [programId |-> p.nid, nocCode |-> p.nocs[k]]]
           \o AllLinks(Tail(programs))

\* Batch size createProgramNocLinks passes to the executor
LINK_BATCH_SIZE == 50

\* No record is under test outside SpecProcessor
NoRow == [kind |-> "none"]

\* main is still running
NoReport == [success |-> "none"]

\* getProgressStats(): the totals of the progress tracker
GetProgressStats(t) ==
  [totalCreated |-> t.totalRecordsCreated,
   totalSkipped |-> t.totalRecordsSkipped,
   totalProcessed |-> t.totalRecordsCreated + t.totalRecordsSkipped]

\* return { success: true, results, stats: finalStats, duration }
SuccessReport(res, finalStats) == [success |-> TRUE, results |-> res, stats |-> finalStats]

\* catch (error): return { success: false, error: error.message, duration }
FailureReport(message) == [success |-> FALSE, error |-> message]

\* An injected failure: n store calls (or file reads) failed in this step.
Fault(n) ==
  /\ faults + n <= MaxFaults
  /\ faults' = faults + n
  /\ hist' = [hist EXCEPT !.clean = @ /\ n = 0]

\* Mutant: every entity is seeded whatever the configuration.
SeederEnabled_Always(name) == TRUE

\* if (SEED_CONFIG.<ENTITY>)
SeederEnabled(name) == SEED_CONFIG[name]

AtSeeder(name) ==
  /\ mpc = "seed"
  /\ epc = "idle"
  /\ entity <= Len(Order)
  /\ Order[entity] = name
  /\ SeederEnabled(name)

seedProgramAreas ==
  /\ AtSeeder("PROGRAM_AREAS")
  /\ "viu_programs.json" \notin unreadable
  /\ ExecBegin(AreasOf(viuPrograms), BATCH_SIZE, "Program Areas", resumeConfig["SKIP_PROGRAM_AREAS"])
  /\ UNCHANGED mainVars

seedPrograms ==
  /\ AtSeeder("PROGRAMS")
  /\ "viu_programs.json" \notin unreadable
  /\ ExecBegin(Stamped(viuPrograms), BATCH_SIZE, "Programs", resumeConfig["SKIP_PROGRAMS"])
  /\ UNCHANGED mainVars

seedNocUnitGroups ==
  /\ AtSeeder("NOC_UNIT_GROUPS")
  /\ "unit_groups.json" \notin unreadable
  /\ ExecBegin(Stamped(unitGroups), BATCH_SIZE, "NOC Unit Groups", resumeConfig["SKIP_NOC_UNIT_GROUPS"])
  /\ UNCHANGED mainVars

\* The regions are upserted in one Promise.all before the executor is called;
\* a failed region upsert returns null and is ignored.
seedOutlooks ==
  /\ AtSeeder("OUTLOOKS")
  /\ "outlooks.xlsx" \notin unreadable
  /\ \E failed \in SUBSET RegionsOf(outlookRows) :
       /\ faults + Cardinality(failed) <= MaxFaults
       /\ faults' = faults + Cardinality(failed)
       /\ hist' = [hist EXCEPT !.clean = @ /\ failed = {},
                               !.upserts = @ \/ RegionsOf(outlookRows) # {}]
       /\ store' = [store EXCEPT !.economicRegion = @ \cup (RegionsOf(outlookRows) \ failed)]
       /\ tracker' = Incremented(tracker, Cardinality(RegionsOf(outlookRows) \ failed),
                                 Cardinality(failed))
  /\ ExecBegin(Stamped(outlookRows), BATCH_SIZE, "Outlooks", resumeConfig["SKIP_OUTLOOKS"])
  /\ UNCHANGED <<viuPrograms, unitGroups, outlookRows, unreadable, mpc, entity,
                 resumeConfig, results, run, BATCH_SIZE, SEED_CONFIG, hasSomeEmpty, entryVars, probeVars>>

\* prisma.program.findMany({ where: { knownNocGroups: { hasSome: [] } } }): the
\* filter names no value. The source does not fix what the store answers to it:
\* every Program row (the filter restricts nothing) or no row (no list shares a
\* value with the empty list). The answer is the same in every run.
FindManyPrograms(st, answer) == IF answer = "all" THEN Orders(st.program) ELSE {<<>>}

\* The links come from the Program rows of the store, in the order findMany returns them.
createProgramNocLinks ==
  /\ AtSeeder("PROGRAM_NOC_LINKS")
  /\ \E programs \in FindManyPrograms(store, hasSomeEmpty) :
       ExecBegin(AllLinks(programs), LINK_BATCH_SIZE, "Program-NOC Links", resumeConfig["SKIP_PROGRAM_NOC_LINKS"])
  /\ UNCHANGED mainVars

\* A seeder rejects: its source file cannot be read, or findMany fails. main
\* catches, logs and returns { success: false }.
SeederThrows ==
  /\ mpc = "seed"
  /\ epc = "idle"
  /\ entity <= Len(Order)
  /\ \/ /\ Order[entity] # "PROGRAM_NOC_LINKS"
        /\ FileOf(SkipKeyOf(Order[entity])) \in unreadable
        /\ UNCHANGED <<faults, hist>>
     \/ /\ Order[entity] = "PROGRAM_NOC_LINKS"
        /\ Fault(1)
  /\ mpc' = "failed"
  /\ report' = FailureReport(Order[entity])
  /\ UNCHANGED <<viuPrograms, unitGroups, outlookRows, unreadable, store, entity,
                 resumeConfig, results, run, BATCH_SIZE, SEED_CONFIG, hasSomeEmpty, tracker, exitStatus, probeVars>>
  /\ UNCHANGED execVars

\* One processor call of the running seeder settles.
SeedCallEnd ==
  /\ mpc = "seed"
  /\ \E b \in 1..PARALLEL_BATCHES :
       /\ b <= Len(groups)
       /\ groups[b].inflight
       /\ \E out \in Processor(Order[entity], data[groups[b].items[groups[b].pos + 1]], store) :
            /\ faults + out.cost <= MaxFaults
            /\ faults' = faults + out.cost
            /\ hist' = [hist EXCEPT !.clean = @ /\ out.cost = 0,
                                    !.errors = @ \/ out.res = "error",
                                    !.upserts = @ \/ UpsertIssued(out.res)]
            /\ store' = out.store
            /\ tracker' = ProcessorTracker(tracker, Order[entity],
                                           data[groups[b].items[groups[b].pos + 1]], out)
            /\ CallEnd(b, out.res)
  /\ UNCHANGED <<viuPrograms, unitGroups, outlookRows, unreadable, mpc, entity,
                 resumeConfig, results, run, BATCH_SIZE, SEED_CONFIG, hasSomeEmpty, entryVars, probeVars>>

SeedCallStart ==
  /\ mpc = "seed"
  /\ \E b \in 1..PARALLEL_BATCHES : CallStart(b)
  /\ UNCHANGED mainVars

SeedMegaStart == mpc = "seed" /\ MegaStart /\ UNCHANGED mainVars

\* A failing write of the progress file is an injected failure.
SeedMegaJoin ==
  /\ mpc = "seed"
  /\ \/ MegaJoin(TRUE) /\ UNCHANGED <<faults, hist>>
     \/ MegaJoin(FALSE) /\ Fault(1)
  /\ UNCHANGED <<viuPrograms, unitGroups, outlookRows, unreadable, store, mpc, entity,
                 resumeConfig, results, run, BATCH_SIZE, SEED_CONFIG, hasSomeEmpty, tracker, entryVars, probeVars>>

SeedExecReturn == mpc = "seed" /\ ExecReturn /\ UNCHANGED mainVars

ExecIdle ==
  /\ data' = <<>>
  /\ operationName' = ""
  /\ batchSize' = 1
  /\ skipCount' = 0
  /\ epc' = "idle"
  /\ megaOffset' = 0
  /\ groups' = <<>>
  /\ created' = 0
  /\ skipped' = 0
  /\ processed' = 0
  /\ ret' = [created |-> 0, skipped |-> 0]
  /\ checkpoints' = <<>>
  /\ calls' = <<>>
  /\ tally' = [r \in Results |-> 0]

\* results.<entity> = await seed<Entity>(skip)
SeederEnd ==
  /\ mpc = "seed"
  /\ epc = "done"
  /\ results' = [results EXCEPT ![Order[entity]] = ret]
  /\ entity' = entity + 1
  /\ ExecIdle
  /\ UNCHANGED <<viuPrograms, unitGroups, outlookRows, unreadable, store, mpc,
                 resumeConfig, run, faults, hist, BATCH_SIZE, SEED_CONFIG, hasSomeEmpty, tracker, entryVars, probeVars>>

\* ------------------------------------------------------------------ main
NoResults == [name \in {Order[k] : k \in 1..Len(Order)} |-> [created |-> 0, skipped |-> 0]]

\* testConnection() returned true; initializeProgress(); the files are as they
\* are for this run.
Connect ==
  /\ mpc = "start"
  /\ \E u \in SUBSET Files :
       /\ Fault(Cardinality(u))
       /\ unreadable' = u
  /\ tracker' = NoTracker
  /\ mpc' = "resume"
  /\ UNCHANGED <<viuPrograms, unitGroups, outlookRows, store, entity, resumeConfig,
                 results, run, BATCH_SIZE, SEED_CONFIG, hasSomeEmpty, entryVars, probeVars>>
  /\ UNCHANGED execVars

\* Mutant: a failed connection test is reported but the run goes on.
ConnectFail_GoesOn ==
  /\ mpc = "start"
  /\ Fault(1)
  /\ mpc' = "resume"
  /\ report' = FailureReport("Database connection failed")
  /\ UNCHANGED <<viuPrograms, unitGroups, outlookRows, unreadable, store, entity,
                 resumeConfig, results, run, BATCH_SIZE, SEED_CONFIG, hasSomeEmpty, tracker, exitStatus, probeVars>>
  /\ UNCHANGED execVars

\* testConnection() returned false: throw new Error('Database connection failed')
ConnectFail ==
  /\ mpc = "start"
  /\ Fault(1)
  /\ mpc' = "failed"
  /\ report' = FailureReport("Database connection failed")
  /\ UNCHANGED <<viuPrograms, unitGroups, outlookRows, unreadable, store, entity,
                 resumeConfig, results, run, BATCH_SIZE, SEED_CONFIG, hasSomeEmpty, tracker, exitStatus, probeVars>>
  /\ UNCHANGED execVars

\* const resumeConfig = await calculateResumePositions()
Resume ==
  /\ mpc = "resume"
  /\ \E failing \in SUBSET CountKeys :
       /\ faults + Cardinality(failing) <= MaxFaults
       /\ faults' = faults + Cardinality(failing)
       /\ resumeConfig' = CalculateResumePositions(store, failing, viuPrograms, unitGroups,
                                                   outlookRows, unreadable)
       /\ hist' = [hist EXCEPT !.clean = @ /\ failing = {},
                               !.failing = failing,
                               !.resumed = TRUE,
                               !.counted = [c \in CountKeys |-> TableCount(store, c)]]
  /\ mpc' = "seed"
  /\ entity' = 1
  /\ UNCHANGED <<viuPrograms, unitGroups, outlookRows, unreadable, store, results, run,
                 BATCH_SIZE, SEED_CONFIG, hasSomeEmpty, tracker, entryVars, probeVars>>
  /\ UNCHANGED execVars

\* executeSeedingOperations returned; main returns { success: true, results }
Finish ==
  /\ mpc = "seed"
  /\ epc = "idle"
  /\ entity > Len(Order)
  /\ mpc' = "done"
  /\ report' = SuccessReport(results, GetProgressStats(tracker))
  /\ UNCHANGED <<viuPrograms, unitGroups, outlookRows, unreadable, store, entity,
                 resumeConfig, results, run, faults, hist, BATCH_SIZE, SEED_CONFIG, hasSomeEmpty, tracker, exitStatus, probeVars>>
  /\ UNCHANGED execVars

\* process.exit(1) runs only in the handler of a rejection
ExitStatusOf(promise) == IF promise = "rejected" THEN 1 ELSE 0

\* prisma.$disconnect() resolves or rejects
DisconnectEvent(ok) == [op |-> "$disconnect", error |-> IF ok THEN "none" ELSE "failed"]

\* Mutant: disconnect() lets the rejection of prisma.$disconnect() through.
DisconnectSettles_NoCatch(ev) == IF ev.error = "none" THEN "resolved" ELSE "rejected"

\* disconnect(): try { errorLog.end(); await prisma.$disconnect() } catch (error)
\* { logger.error(...) }: the promise of disconnect resolves either way
DisconnectSettles(ev) == "resolved"

\* main returns from its try and from its catch; finally { await disconnect() }
\* settles the promise of main with that return value unless disconnect rejects
MainSettles(ev) == IF DisconnectSettles(ev) = "rejected" THEN "rejected" ELSE "resolved"

\* finally { await disconnect() }: main has returned from its try or its catch
Disconnect ==
  /\ mpc \in {"done", "failed"}
  /\ issued = <<>>
  /\ \E ok \in BOOLEAN : issued' = <<DisconnectEvent(ok)>>
  /\ UNCHANGED <<viuPrograms, unitGroups, outlookRows, unreadable, store, mpc, entity,
                 resumeConfig, results, run, faults, hist, BATCH_SIZE, SEED_CONFIG, hasSomeEmpty, tracker, entryVars,
                 probeRow, outcome>>
  /\ UNCHANGED execVars

\* seed.js: main().catch(error => process.exit(1)). The promise of main settles
\* when disconnect() has; the process ends when the event loop is empty.
EntryExit ==
  /\ mpc \in {"done", "failed"}
  /\ issued # <<>>
  /\ exitStatus = <<>>
  /\ exitStatus' = <<ExitStatusOf(MainSettles(issued[1]))>>
  /\ UNCHANGED <<viuPrograms, unitGroups, outlookRows, unreadable, store, mpc, entity,
                 resumeConfig, results, run, faults, hist, BATCH_SIZE, SEED_CONFIG, hasSomeEmpty, tracker, report, probeVars>>
  /\ UNCHANGED execVars

\* The process is stopped wherever it is; what is in the store stays.
Stop ==
  /\ mpc \in {"start", "resume", "seed"}
  /\ Fault(1)
  /\ mpc' = "stopped"
  /\ UNCHANGED <<viuPrograms, unitGroups, outlookRows, unreadable, store, entity,
                 resumeConfig, results, run, BATCH_SIZE, SEED_CONFIG, hasSomeEmpty, tracker, entryVars, probeVars>>
  /\ UNCHANGED execVars

NoCounts == [c \in CountKeys |-> 0]

\* The operator starts main again, in a new process, on the same source files
\* and the same store.
NextRun ==
  /\ mpc \in {"done", "failed", "stopped"}
  /\ mpc = "stopped" \/ exitStatus # <<>>
  /\ run < MaxRuns
  /\ run' = run + 1
  /\ mpc' = "start"
  /\ entity' = 1
  /\ unreadable' = {}
  /\ resumeConfig' = ZeroSkips
  /\ results' = NoResults
  /\ hist' = [hist EXCEPT !.clean = TRUE, !.errors = FALSE, !.failing = {},
                          !.counted = NoCounts, !.prev = mpc, !.prevClean = hist.clean,
                          !.prevErrors = hist.errors, !.store1 = store,
                          !.resumed = FALSE, !.upserts = FALSE]
  /\ ExecIdle
  /\ report' = NoReport
  /\ exitStatus' = <<>>
  /\ tracker' = NoTracker
  /\ issued' = <<>>
  /\ UNCHANGED <<viuPrograms, unitGroups, outlookRows, store, faults, BATCH_SIZE, SEED_CONFIG, hasSomeEmpty,
                 probeRow, outcome>>

Init ==
  /\ viuPrograms \in {s \in SeqsUpTo(ProgramRecs, MaxPrograms) : FirstAppearance(s)}
  /\ unitGroups \in SeqsUpTo(UnitGroupRecs, MaxUnitGroups)
  /\ outlookRows \in SeqsUpTo(OutlookRecs, MaxOutlooks)
  /\ BATCH_SIZE \in 1..MaxBatch
  /\ hasSomeEmpty \in {"all", "none"}
  /\ tracker = NoTracker
  /\ SEED_CONFIG = AllEnabled
  /\ store \in {EmptyStore, StoreWith(MaxStale)}
  /\ unreadable = {}
  /\ mpc = "start"
  /\ entity = 1
  /\ resumeConfig = ZeroSkips
  /\ results = NoResults
  /\ run = 1
  /\ faults = 0
  /\ hist = [clean |-> TRUE, errors |-> FALSE, failing |-> {}, counted |-> NoCounts,
             prev |-> "none", prevClean |-> TRUE, prevErrors |-> FALSE, store1 |-> EmptyStore, store0 |-> store,
             resumed |-> FALSE, upserts |-> FALSE]
  /\ data = <<>>
  /\ operationName = ""
  /\ batchSize = 1
  /\ skipCount = 0
  /\ epc = "idle"
  /\ megaOffset = 0
  /\ groups = <<>>
  /\ created = 0
  /\ skipped = 0
  /\ processed = 0
  /\ ret = [created |-> 0, skipped |-> 0]
  /\ checkpoints = <<>>
  /\ calls = <<>>
  /\ tally = [r \in Results |-> 0]
  /\ report = NoReport
  /\ exitStatus = <<>>
  /\ probeRow = NoRow
  /\ issued = <<>>
  /\ outcome = "none"

Next ==
  \/ Connect
  \/ ConnectFail
  \/ Resume
  \/ seedProgramAreas
  \/ seedPrograms
  \/ seedNocUnitGroups
  \/ seedOutlooks
  \/ createProgramNocLinks
  \/ SeederThrows
  \/ SeedMegaStart
  \/ SeedCallStart
  \/ SeedCallEnd
  \/ SeedMegaJoin
  \/ SeedExecReturn
  \/ SeederEnd
  \/ Finish
  \/ Disconnect
  \/ EntryExit
  \/ Stop
  \/ NextRun

Spec == Init /\ [][Next]_vars

\* ------------------------------------------------------------------ SpecBatch
\* The executor alone, for any collection, skip offset, batch size and processor.
\* Operation names given to the executor in SpecBatch
BatchNames == {"Programs", "Outlooks"}

InitBatch ==
  /\ data \in {[k \in 1..n |-> k] : n \in 0..MaxLen}
  /\ operationName \in BatchNames
  /\ batchSize \in 1..MaxBatch
  /\ skipCount \in 0..MaxSkip
  /\ epc = "idle"
  /\ megaOffset = 0
  /\ groups = <<>>
  /\ created = 0
  /\ skipped = 0
  /\ processed = 0
  /\ ret = [created |-> 0, skipped |-> 0]
  /\ checkpoints = <<>>
  /\ calls = [k \in 1..Len(data) |-> 0]
  /\ tally = [r \in Results |-> 0]
  /\ viuPrograms = <<>>
  /\ unitGroups = <<>>
  /\ outlookRows = <<>>
  /\ BATCH_SIZE = batchSize
  /\ hasSomeEmpty = "all"
  /\ tracker = NoTracker
  /\ SEED_CONFIG = AllEnabled
  /\ unreadable = {}
  /\ store = EmptyStore
  /\ mpc = "batch"
  /\ entity = 1
  /\ resumeConfig = ZeroSkips
  /\ results = NoResults
  /\ run = 1
  /\ faults = 0
  /\ hist = [clean |-> TRUE, errors |-> FALSE, failing |-> {}, counted |-> NoCounts,
             prev |-> "none", prevClean |-> TRUE, prevErrors |-> FALSE, store1 |-> EmptyStore, store0 |-> EmptyStore,
             resumed |-> FALSE, upserts |-> FALSE]
  /\ report = NoReport
  /\ exitStatus = <<>>
  /\ probeRow = NoRow
  /\ issued = <<>>
  /\ outcome = "none"

BatchCall ==
  /\ mpc = "batch"
  /\ epc = "idle"
  /\ ExecBegin(data, batchSize, operationName, skipCount)
  /\ UNCHANGED mainVars

BatchCallStart ==
  /\ mpc = "batch"
  /\ \E b \in 1..PARALLEL_BATCHES : CallStart(b)
  /\ UNCHANGED mainVars

\* The processor is any function: each call may end in any result.
BatchCallEnd ==
  /\ mpc = "batch"
  /\ \E b \in 1..PARALLEL_BATCHES, res \in Results : CallEnd(b, res)
  /\ UNCHANGED mainVars

BatchMegaStart == mpc = "batch" /\ MegaStart /\ UNCHANGED mainVars

BatchMegaJoin ==
  /\ mpc = "batch"
  /\ \E written \in BOOLEAN : MegaJoin(written)
  /\ UNCHANGED mainVars

BatchExecReturn == mpc = "batch" /\ ExecReturn /\ UNCHANGED mainVars

NextBatch ==
  \/ BatchCall
  \/ BatchMegaStart
  \/ BatchCallStart
  \/ BatchCallEnd
  \/ BatchMegaJoin
  \/ BatchExecReturn

SpecBatch == InitBatch /\ [][NextBatch]_vars

\* ------------------------------------------------------------------ store calls, attempt by attempt
\* DB_CONFIG.MAX_RETRIES
MAX_RETRIES == 3

\* DB_CONFIG.RETRY_DELAY_MS
RETRY_DELAY_MS == 1000

\* What one attempt of a store call can end in: "none" is success, P2002 a
\* unique constraint violation, P2025 a record not found, P2034 a transaction
\* conflict, "invalid" an error whose message includes 'Invalid input',
\* "limit" one whose message names a connection or rate limit, "timeout" any
\* other failure.
Attempts == {"none", "P2002", "P2025", "P2034", "invalid", "limit", "timeout"}

\* The attempts a store call would meet, first to last
AttemptSeqs == [1..MAX_RETRIES -> Attempts]

\* Mutant: an error whose message includes 'Invalid input' is retried.
NotRetried_CodesOnly(err) == err \in {"P2002", "P2025"}

\* if (error.code === 'P2002' || error.code === 'P2025' ||
\*     error.message?.includes('Invalid input')) throw error
NotRetried(err) == err \in {"P2002", "P2025", "invalid"}

\* Mutant: every wait is RETRY_DELAY_MS long.
RetryDelay_Flat(attempt) == RETRY_DELAY_MS

\* const delay = DB_CONFIG.RETRY_DELAY_MS * attempt
RetryDelay(attempt) == RETRY_DELAY_MS * attempt

\* withRetry: the operation is attempted until it succeeds, until an error
\* that is not retried, or MAX_RETRIES times; the last error is thrown.
RECURSIVE WithRetryFrom(_, _)
WithRetryFrom(errs, attempt) ==
  IF errs[attempt] = "none" THEN [ok |-> TRUE, attempts |-> attempt, error |-> "none"]
  ELSE IF NotRetried(errs[attempt]) \/ attempt = MAX_RETRIES
       THEN [ok |-> FALSE, attempts |-> attempt, error |-> errs[attempt]]
       ELSE WithRetryFrom(errs, attempt + 1)

WithRetry(errs) == WithRetryFrom(errs, 1)

\* safeDbOperation: the row when withRetry returned, null in each branch of
\* its catch (P2034, rate limit, P2002 and every other error)
\* Mutant: a unique constraint violation is thrown on.
SafeCatch_RethrowsUnique(error) == IF error = "P2002" THEN "throw" ELSE "null"

\* The catch block of safeDbOperation: what it returns for the error caught
SafeCatch(error) ==
  CASE error = "P2034" -> "null"
    [] error = "limit" -> "null"
    [] error = "P2002" -> "null"
    [] OTHER -> "null"

SafeDbOperation(errs) ==
  IF WithRetry(errs).ok THEN "row" ELSE SafeCatch(WithRetry(errs).error)

\* return result ? 'created' : 'error'
ResultOf(result) == IF result # "null" THEN "created" ELSE "error"

\* ------------------------------------------------------------------ processors, call by call
\* The characters of "NOC_"
NOC_PREFIX == <<"N", "O", "C", "_">>

\* String.prototype.startsWith
StartsWith(str, prefix) ==
  Len(str) >= Len(prefix) /\ SubSeq(str, 1, Len(prefix)) = prefix

\* String.prototype.substring(n)
Substring(str, n) == SubSeq(str, n + 1, Len(str))

\* A normalisation that drops the first four characters of every code that
\* has four, whatever they are
StripNocPrefix_Blind(code) ==
  IF Len(code) >= Len(NOC_PREFIX) THEN Substring(code, Len(NOC_PREFIX)) ELSE code

\* if (nocCode.startsWith('NOC_')) nocCode = nocCode.substring(4)
StripNocPrefix(code) ==
  IF StartsWith(code, NOC_PREFIX) THEN Substring(code, Len(NOC_PREFIX)) ELSE code

\* new Date(dateValue) when the cell holds a value, new Date('2024-01-01') otherwise
ReleaseDateOf(dateValue) == IF dateValue # "" THEN dateValue ELSE "2024-01-01"

\* What a processor call did: the store calls it issued (an upsert made through
\* safeDbOperation is logged with the error withRetry ended in) and what it
\* returned
Did(calls_, res) == [issued |-> calls_, outcome |-> res]

\* seedOutlooks.processor on one row; errs are the attempts its upsert meets
\* (the language of the key, LANG or 'EN', is left out: no claim reads it)
OutlookCallOf(r, errs) ==
  LET nocCode == StripNocPrefix(r.code)
      releaseDate == ReleaseDateOf(r.date)
  IN  IF nocCode = <<>> \/ r.region = "" \/ r.province = "" \/ r.outlook = ""
      THEN Did(<<>>, "skipped")
      ELSE Did(<<[op |-> "outlook.upsert", nocCode |-> nocCode,
                  economicRegionCode |-> r.region, province |-> r.province,
                  releaseDate |-> releaseDate, error |-> WithRetry(errs).error]>>,
               ResultOf(SafeDbOperation(errs)))

\* seedNocUnitGroups.processor on one record; errs are the attempts the unit
\* group's upsert meets. The section upserts go through safeDbOperation and
\* their results are not looked at.
UnitGroupCallOf(r, errs) ==
  IF r.noc = "" \/ r.occupation = ""
  THEN Did(<<>>, "skipped")
  ELSE LET own == <<[op |-> "nocUnitGroup.upsert", nocCode |-> r.noc,
                      error |-> WithRetry(errs).error]>>
       IN  IF SafeDbOperation(errs) = "null"
           THEN Did(own, "error")
           ELSE Did(own \o [k \in 1..Len(r.sections) |->
                              [op |-> "nocSection.upsert", nocCode |-> r.noc,
                               title |-> r.sections[k]]],
                    "created")

\* seedPrograms.processor on one record whose program area is found or not
ProgramCallOf(r, errs) ==
  IF ~r.areaFound
  THEN Did(<<[op |-> "programArea.findUnique", nid |-> r.area]>>, "skipped")
  ELSE Did(<<[op |-> "programArea.findUnique", nid |-> r.area],
             [op |-> "program.upsert", nid |-> r.nid, error |-> WithRetry(errs).error]>>,
           ResultOf(SafeDbOperation(errs)))

\* The executor under a scheduler that runs every continuation that is ready,
\* with processor calls that settle
SpecBatchFair == SpecBatch /\ WF_vars(NextBatch)

\* ------------------------------------------------------------------ one processor call
MaxSections == 2

SectionTitles == {"Main duties", "Exclusions"}

\* Classification codes as they can stand in the NOC_Code cell, character by
\* character; an empty cell reads as the empty string (String(cell || ''))
Codes == {<<>>, <<"1", "2">>, NOC_PREFIX \o <<"1", "2">>, NOC_PREFIX,
          <<"N", "O", "C", "1">>, <<"1">> \o NOC_PREFIX,
          NOC_PREFIX \o NOC_PREFIX \o <<"1">>}

OutlookRows ==
  [kind : {"outlook"}, code : Codes, region : {"", "5900"}, province : {"", "BC"},
   outlook : {"", "good"}, date : {"", "2025-06-01"}]

UnitGroupRows ==
  [kind : {"unitGroup"}, noc : {"", "10010"}, occupation : {"", "Managers"},
   sections : UNION {[1..n -> SectionTitles] : n \in 0..MaxSections}]

InitProcessor ==
  /\ probeRow \in OutlookRows \cup UnitGroupRows
  /\ issued = <<>>
  /\ outcome = "none"
  /\ mpc = "processor"
  /\ data = <<>>
  /\ operationName = ""
  /\ batchSize = 1
  /\ skipCount = 0
  /\ epc = "idle"
  /\ megaOffset = 0
  /\ groups = <<>>
  /\ created = 0
  /\ skipped = 0
  /\ processed = 0
  /\ ret = [created |-> 0, skipped |-> 0]
  /\ checkpoints = <<>>
  /\ calls = <<>>
  /\ tally = [r \in Results |-> 0]
  /\ viuPrograms = <<>>
  /\ unitGroups = <<>>
  /\ outlookRows = <<>>
  /\ BATCH_SIZE = 1
  /\ hasSomeEmpty = "all"
  /\ tracker = NoTracker
  /\ SEED_CONFIG = AllEnabled
  /\ unreadable = {}
  /\ store = EmptyStore
  /\ entity = 1
  /\ resumeConfig = ZeroSkips
  /\ results = NoResults
  /\ run = 1
  /\ faults = 0
  /\ hist = [clean |-> TRUE, errors |-> FALSE, failing |-> {}, counted |-> NoCounts,
             prev |-> "none", prevClean |-> TRUE, prevErrors |-> FALSE, store1 |-> EmptyStore, store0 |-> EmptyStore,
             resumed |-> FALSE, upserts |-> FALSE]
  /\ report = NoReport
  /\ exitStatus = <<>>

othersOfProbe == <<execVars, viuPrograms, unitGroups, outlookRows, unreadable, store, mpc,
                   entity, resumeConfig, results, run, faults, hist, BATCH_SIZE, SEED_CONFIG,
                   hasSomeEmpty, entryVars, probeRow>>

\* seedOutlooks.processor(row), to its return
OutlookCall ==
  /\ mpc = "processor"
  /\ probeRow.kind = "outlook"
  /\ outcome = "none"
  /\ \E errs \in AttemptSeqs :
       LET did == OutlookCallOf(probeRow, errs)
       IN  /\ issued' = did.issued /\ outcome' = did.outcome
           /\ tracker' = IF did.outcome = "skipped" THEN IncrementSkipped(tracker)
                         ELSE SafeDbTracker(tracker, WithRetry(errs).ok)
  /\ UNCHANGED othersOfProbe

\* seedNocUnitGroups.processor(unitGroup), to its return
UnitGroupCall ==
  /\ mpc = "processor"
  /\ probeRow.kind = "unitGroup"
  /\ outcome = "none"
  /\ \E errs \in AttemptSeqs :
       LET did == UnitGroupCallOf(probeRow, errs)
       IN  /\ issued' = did.issued /\ outcome' = did.outcome
           /\ \E failed \in 0..Len(probeRow.sections) :
                tracker' = CASE did.outcome = "skipped" -> IncrementSkipped(tracker)
                             [] did.outcome = "error" -> SafeDbTracker(tracker, FALSE)
                             [] OTHER -> Incremented(SafeDbTracker(tracker, TRUE),
                                                     Len(probeRow.sections) - failed, failed)
  /\ UNCHANGED othersOfProbe

NextProcessor ==
  \/ OutlookCall
  \/ UnitGroupCall

SpecProcessor == InitProcessor /\ [][NextProcessor]_vars

\* ------------------------------------------------------------------ the programs seeder, call by call
MaxSeed == 3

\* Program records by position; areaFound is what the processor's lookup of
\* the record's program area answers
SeedRecords(n) ==
  {d \in [1..n -> [nid : 1..n, area : {1}, areaFound : BOOLEAN]] : \A k \in 1..n : d[k].nid = k}

InitSeeder ==
  /\ data \in UNION {SeedRecords(n) : n \in 1..MaxSeed}
  /\ operationName = "Programs"
  /\ batchSize \in 1..MaxBatch
  /\ skipCount = 0
  /\ epc = "idle"
  /\ megaOffset = 0
  /\ groups = <<>>
  /\ created = 0
  /\ skipped = 0
  /\ processed = 0
  /\ ret = [created |-> 0, skipped |-> 0]
  /\ checkpoints = <<>>
  /\ calls = [k \in 1..Len(data) |-> 0]
  /\ tally = [r \in Results |-> 0]
  /\ viuPrograms = <<>>
  /\ unitGroups = <<>>
  /\ outlookRows = <<>>
  /\ BATCH_SIZE = batchSize
  /\ hasSomeEmpty = "all"
  /\ tracker = NoTracker
  /\ SEED_CONFIG = AllEnabled
  /\ unreadable = {}
  /\ store = EmptyStore
  /\ mpc = "seeder"
  /\ entity = 1
  /\ resumeConfig = ZeroSkips
  /\ results = NoResults
  /\ run = 1
  /\ faults = 0
  /\ hist = [clean |-> TRUE, errors |-> FALSE, failing |-> {}, counted |-> NoCounts,
             prev |-> "none", prevClean |-> TRUE, prevErrors |-> FALSE, store1 |-> EmptyStore, store0 |-> EmptyStore,
             resumed |-> FALSE, upserts |-> FALSE]
  /\ report = NoReport
  /\ exitStatus = <<>>
  /\ probeRow = NoRow
  /\ issued = <<>>
  /\ outcome = "none"

\* seedPrograms: return await processInParallelBatches(viuPrograms, BATCH_SIZE, processor, ...)
SeederCall ==
  /\ mpc = "seeder"
  /\ epc = "idle"
  /\ ExecBegin(data, batchSize, operationName, skipCount)
  /\ UNCHANGED mainVars

SeederMegaStart == mpc = "seeder" /\ MegaStart /\ UNCHANGED mainVars

SeederCallStart ==
  /\ mpc = "seeder"
  /\ \E b \in 1..PARALLEL_BATCHES : CallStart(b)
  /\ UNCHANGED mainVars

\* seedPrograms.processor settles on the record the batch is at; its store
\* calls are appended to the log
SeederCallEnd ==
  /\ mpc = "seeder"
  /\ \E b \in 1..Len(groups), errs \in AttemptSeqs :
       /\ groups[b].inflight
       /\ LET did == ProgramCallOf(data[groups[b].items[groups[b].pos + 1]], errs)
          IN  /\ CallEnd(b, did.outcome)
              /\ issued' = Append(issued, did)
              /\ tracker' = IF did.outcome = "skipped" THEN IncrementSkipped(tracker)
                            ELSE SafeDbTracker(tracker, WithRetry(errs).ok)
  /\ UNCHANGED <<viuPrograms, unitGroups, outlookRows, unreadable, store, mpc, entity,
                 resumeConfig, results, run, faults, hist, BATCH_SIZE, SEED_CONFIG, hasSomeEmpty,
                 entryVars, probeRow, outcome>>

SeederMegaJoin ==
  /\ mpc = "seeder"
  /\ \E written \in BOOLEAN : MegaJoin(written)
  /\ UNCHANGED mainVars

SeederExecReturn == mpc = "seeder" /\ ExecReturn /\ UNCHANGED mainVars

NextSeeder ==
  \/ SeederCall
  \/ SeederMegaStart
  \/ SeederCallStart
  \/ SeederCallEnd
  \/ SeederMegaJoin
  \/ SeederExecReturn

SpecSeeder == InitSeeder /\ [][NextSeeder]_vars

\* ------------------------------------------------------------------ one store call, step by step
\* safeDbOperation(operation, context) on an operation whose k-th attempt ends
\* in probeRow.errs[k]. The log holds what withRetry did, in order: the
\* operation invoked, a wait, its return or its throw.
InitRetry ==
  /\ probeRow \in [kind : {"operation"}, errs : AttemptSeqs]
  /\ issued = <<>>
  /\ outcome = "none"
  /\ mpc = "retry"
  /\ data = <<>>
  /\ operationName = ""
  /\ batchSize = 1
  /\ skipCount = 0
  /\ epc = "idle"
  /\ megaOffset = 0
  /\ groups = <<>>
  /\ created = 0
  /\ skipped = 0
  /\ processed = 0
  /\ ret = [created |-> 0, skipped |-> 0]
  /\ checkpoints = <<>>
  /\ calls = <<>>
  /\ tally = [r \in Results |-> 0]
  /\ viuPrograms = <<>>
  /\ unitGroups = <<>>
  /\ outlookRows = <<>>
  /\ BATCH_SIZE = 1
  /\ hasSomeEmpty = "all"
  /\ tracker = NoTracker
  /\ SEED_CONFIG = AllEnabled
  /\ unreadable = {}
  /\ store = EmptyStore
  /\ entity = 1
  /\ resumeConfig = ZeroSkips
  /\ results = NoResults
  /\ run = 1
  /\ faults = 0
  /\ hist = [clean |-> TRUE, errors |-> FALSE, failing |-> {}, counted |-> NoCounts,
             prev |-> "none", prevClean |-> TRUE, prevErrors |-> FALSE, store1 |-> EmptyStore, store0 |-> EmptyStore,
             resumed |-> FALSE, upserts |-> FALSE]
  /\ report = NoReport
  /\ exitStatus = <<>>

\* The last thing withRetry did
LastEvent == issued[Len(issued)]

Event(op, attempt, error, ms) == [op |-> op, attempt |-> attempt, error |-> error, ms |-> ms]

InRetry == mpc = "retry" /\ outcome = "none"

\* return await operation(): the operation is invoked
RetryInvoke ==
  /\ InRetry
  /\ IF issued = <<>> THEN TRUE ELSE LastEvent.op = "wait"
  /\ LET attempt == IF issued = <<>> THEN 1 ELSE LastEvent.attempt + 1
     IN  issued' = Append(issued, Event("invoke", attempt, probeRow.errs[attempt], 0))
  /\ UNCHANGED <<othersOfProbe, tracker, outcome>>

\* The operation returned: withRetry returns its result
RetryReturn ==
  /\ InRetry
  /\ issued # <<>> /\ LastEvent.op = "invoke" /\ LastEvent.error = "none"
  /\ issued' = Append(issued, Event("return", LastEvent.attempt, "none", 0))
  /\ UNCHANGED <<othersOfProbe, tracker, outcome>>

\* throw error for an error that is not retried; throw lastError after the loop
RetryThrow ==
  /\ InRetry
  /\ issued # <<>> /\ LastEvent.op = "invoke" /\ LastEvent.error # "none"
  /\ IF NotRetried(LastEvent.error) THEN TRUE ELSE LastEvent.attempt = MAX_RETRIES
  /\ issued' = Append(issued, Event("throw", LastEvent.attempt, LastEvent.error, 0))
  /\ UNCHANGED <<othersOfProbe, tracker, outcome>>

\* if (attempt < maxRetries) await new Promise(resolve => setTimeout(resolve, delay))
RetryWait ==
  /\ InRetry
  /\ issued # <<>> /\ LastEvent.op = "invoke" /\ LastEvent.error # "none"
  /\ ~NotRetried(LastEvent.error)
  /\ LastEvent.attempt < MAX_RETRIES
  /\ issued' = Append(issued, Event("wait", LastEvent.attempt, LastEvent.error,
                                    RetryDelay(LastEvent.attempt)))
  /\ UNCHANGED <<othersOfProbe, tracker, outcome>>

\* safeDbOperation returns the result, or what its catch block returns
SafeReturn ==
  /\ InRetry
  /\ issued # <<>> /\ LastEvent.op \in {"return", "throw"}
  /\ outcome' = IF LastEvent.op = "return" THEN "row" ELSE SafeCatch(LastEvent.error)
  /\ tracker' = SafeDbTracker(tracker, LastEvent.op = "return")
  /\ UNCHANGED <<othersOfProbe, issued>>

NextRetry ==
  \/ RetryInvoke
  \/ RetryReturn
  \/ RetryThrow
  \/ RetryWait
  \/ SafeReturn

SpecRetry == InitRetry /\ [][NextRetry]_vars

\* ------------------------------------------------------------------ main, with the seeders as arbitrary functions
\* main and executeSeedingOperations under every SEED_CONFIG. A seeder is a
\* call that returns some { created, skipped } or throws; the log holds the
\* return of calculateResumePositions and the invocation and the return of
\* each seeder, in order.
InitCoordinator ==
  /\ probeRow = NoRow
  /\ issued = <<>>
  /\ outcome = "none"
  /\ mpc = "connect"
  /\ data = <<>>
  /\ operationName = ""
  /\ batchSize = 1
  /\ skipCount = 0
  /\ epc = "idle"
  /\ megaOffset = 0
  /\ groups = <<>>
  /\ created = 0
  /\ skipped = 0
  /\ processed = 0
  /\ ret = [created |-> 0, skipped |-> 0]
  /\ checkpoints = <<>>
  /\ calls = <<>>
  /\ tally = [r \in Results |-> 0]
  /\ viuPrograms = <<>>
  /\ unitGroups = <<>>
  /\ outlookRows = <<>>
  /\ BATCH_SIZE = 1
  /\ hasSomeEmpty = "all"
  /\ tracker = NoTracker
  /\ SEED_CONFIG \in [{Order[i] : i \in 1..Len(Order)} -> BOOLEAN]
  /\ unreadable = {}
  /\ store = EmptyStore
  /\ entity = 1
  /\ resumeConfig = ZeroSkips
  /\ results = NoResults
  /\ run = 1
  /\ faults = 0
  /\ hist = [clean |-> TRUE, errors |-> FALSE, failing |-> {}, counted |-> NoCounts,
             prev |-> "none", prevClean |-> TRUE, prevErrors |-> FALSE, store1 |-> EmptyStore, store0 |-> EmptyStore,
             resumed |-> FALSE, upserts |-> FALSE]
  /\ report = NoReport
  /\ exitStatus = <<>>

\* What a seeder may return
SeederResults == {[created |-> 0, skipped |-> 0], [created |-> 1, skipped |-> 0],
                  [created |-> 0, skipped |-> 1]}

\* What calculateResumePositions may return
ResumeConfigs == {ZeroSkips, [k \in SkipKeys |-> 1]}

CoordEvent(op, name, skip) == [op |-> op, name |-> name, skip |-> skip]

othersOfCoordinator == <<execVars, viuPrograms, unitGroups, outlookRows, unreadable, store,
                         run, faults, hist, BATCH_SIZE, SEED_CONFIG, hasSomeEmpty, tracker,
                         exitStatus, probeRow, outcome>>

\* testConnection() returned true; health check and total are computed
CoordConnect ==
  /\ mpc = "connect"
  /\ mpc' = "resume"
  /\ UNCHANGED <<othersOfCoordinator, entity, resumeConfig, results, report, issued>>

\* testConnection() returned false: main throws, catches and returns
CoordConnectFail ==
  /\ mpc = "connect"
  /\ mpc' = "failed"
  /\ report' = FailureReport("Database connection failed")
  /\ UNCHANGED <<othersOfCoordinator, entity, resumeConfig, results, issued>>

\* const resumeConfig = await calculateResumePositions()
CoordResume ==
  /\ mpc = "resume"
  /\ resumeConfig' \in ResumeConfigs
  /\ issued' = Append(issued, CoordEvent("resumed", "", 0))
  /\ entity' = 1
  /\ mpc' = "plan"
  /\ UNCHANGED <<othersOfCoordinator, results, report>>

\* else branch: results.<entity> = { created: 0, skipped: 0 }
CoordSkip ==
  /\ mpc = "plan"
  /\ entity <= Len(Order)
  /\ ~SeederEnabled(Order[entity])
  /\ results' = [results EXCEPT ![Order[entity]] = [created |-> 0, skipped |-> 0]]
  /\ entity' = entity + 1
  /\ UNCHANGED <<othersOfCoordinator, mpc, resumeConfig, report, issued>>

\* if (SEED_CONFIG.<ENTITY>): the seeder is called with its skip value
CoordInvoke ==
  /\ mpc = "plan"
  /\ entity <= Len(Order)
  /\ SeederEnabled(Order[entity])
  /\ issued' = Append(issued, CoordEvent("invoked", Order[entity],
                                         resumeConfig[SkipKeyOf(Order[entity])]))
  /\ mpc' = "seeder"
  /\ UNCHANGED <<othersOfCoordinator, entity, resumeConfig, results, report>>

\* results.<entity> = await seed<Entity>(skip)
CoordReturn ==
  /\ mpc = "seeder"
  /\ \E r \in SeederResults : results' = [results EXCEPT ![Order[entity]] = r]
  /\ issued' = Append(issued, CoordEvent("returned", Order[entity], 0))
  /\ entity' = entity + 1
  /\ mpc' = "plan"
  /\ UNCHANGED <<othersOfCoordinator, resumeConfig, report>>

\* The seeder throws: executeSeedingOperations rejects, main catches and returns
CoordThrow ==
  /\ mpc = "seeder"
  /\ issued' = Append(issued, CoordEvent("threw", Order[entity], 0))
  /\ mpc' = "failed"
  /\ report' = FailureReport(Order[entity])
  /\ UNCHANGED <<othersOfCoordinator, entity, resumeConfig, results>>

\* return results; main returns { success: true, results }
CoordFinish ==
  /\ mpc = "plan"
  /\ entity > Len(Order)
  /\ mpc' = "done"
  /\ report' = SuccessReport(results, GetProgressStats(tracker))
  /\ UNCHANGED <<othersOfCoordinator, entity, resumeConfig, results, issued>>

NextCoordinator ==
  \/ CoordConnect
  \/ CoordConnectFail
  \/ CoordResume
  \/ CoordSkip
  \/ CoordInvoke
  \/ CoordReturn
  \/ CoordThrow
  \/ CoordFinish

SpecCoordinator == InitCoordinator /\ [][NextCoordinator]_vars

\* ------------------------------------------------------------------ claims on the executor
\* C1: every record at index >= skip offset is passed to the processor exactly
\* once during the call, and no record below the skip offset is passed, also
\* when the processor throws.
C1_EachRecordOnce ==
  epc = "done" =>
    \A k \in 1..Len(data) : calls[k] = (IF k > skipCount THEN 1 ELSE 0)

\* C2: when the processor only returns 'created', 'skipped' or 'error', the
\* returned created + skipped equals the number of records after the skip offset.
C2_CreatedPlusSkipped ==
  (epc = "done" /\ tally["throw"] = 0) =>
    ret.created + ret.skipped = Len(ActualData(data, skipCount))

\* C3: every processor call that returns 'error' adds exactly one to the
\* returned skipped count and nothing to the returned created count.
C3_ErrorCountsAsSkipped ==
  (epc = "done" /\ tally["throw"] = 0) =>
    /\ ret.skipped = tally["skipped"] + tally["error"]
    /\ ret.created = tally["created"]

\* ------------------------------------------------------------------ claims on the pipeline
\* The source size validateSkipValues derives for skip key k
SizeOf(k) == SourceSize(k, viuPrograms, unitGroups, outlookRows)

\* The number of rows of k's table when the counts were taken in this run
CountedOf(k) == hist.counted[CountKeyOf(k)]

\* Every valid source record has its row: each area and each program that names
\* an area, each unit group with a code, each outlook row with a code, and each
\* link of a stored program to a stored unit group.
AllValidStored ==
  /\ \A k \in 1..Len(viuPrograms) :
       viuPrograms[k].area # 0 =>
         /\ viuPrograms[k].area \in store.programArea
         /\ viuPrograms[k].nid \in ProgramKeys(store)
  /\ \A k \in 1..Len(unitGroups) :
       unitGroups[k].noc # 0 => unitGroups[k].noc \in UnitGroupKeys(store)
  /\ \A k \in 1..Len(outlookRows) :
       outlookRows[k].code # 0 =>
         <<outlookRows[k].code, outlookRows[k].region>> \in OutlookKeys(store)
  /\ \A p \in store.program : \A k \in 1..Len(p.nocs) :
       p.nocs[k] \in UnitGroupKeys(store) =>
         [programId |-> p.nid, nocCode |-> p.nocs[k]] \in store.programNocLink

\* C4: after a run that stopped, or in which some records ended in 'error', a
\* later run in which every store call succeeds leaves a row for every valid
\* source record. Stated for a store that answers the links seeder's filter
\* with every Program row; with the other answer no link is ever stored.
C4_LaterRunCompletesStore ==
  ( /\ run > 1
    /\ hasSomeEmpty = "all"
    /\ mpc = "done"
    /\ hist.clean
    /\ (hist.prev = "stopped" \/ hist.prevErrors) ) => AllValidStored

\* C5: if the store holds N rows of an entity, N at most the size of its source
\* collection, and the count query answers, the skip value is N and the seeder
\* passes to its processor only records at index >= N.
C5_SkipIsStoreCount ==
  \A e \in 1..Len(Order) :
    LET k == SkipKeyOf(Order[e])
    IN  ( /\ mpc = "seed"
          /\ CountKeyOf(k) \notin hist.failing
          /\ CountedOf(k) <= SizeOf(k) ) =>
            /\ resumeConfig[k] = CountedOf(k)
            /\ (entity = e /\ epc # "idle") =>
                 \A j \in 1..Len(data) : calls[j] > 0 => j > CountedOf(k)

C5_Witness ==
  \E e \in 1..Len(Order) :
    LET k == SkipKeyOf(Order[e])
    IN  /\ mpc = "seed"
        /\ entity = e
        /\ CountKeyOf(k) \notin hist.failing
        /\ CountedOf(k) >= 1
        /\ CountedOf(k) < SizeOf(k)
        /\ \E j \in 1..Len(data) : calls[j] > 0

ObtainedOf(k) == IF CountKeyOf(k) \in hist.failing THEN 0 ELSE CountedOf(k)

C8_FailedCountZeroesOwnSkipOnly ==
  mpc = "seed" =>
    \A k \in SkipKeys :
      resumeConfig[k] =
        IF CountKeyOf(k) \in hist.failing THEN 0
        ELSE IF FileOf(k) \notin unreadable /\ CountedOf(k) > SizeOf(k) THEN SizeOf(k)
        ELSE CountedOf(k)

C8_Witness ==
  /\ mpc = "seed"
  /\ \E k \in SkipKeys : CountKeyOf(k) \in hist.failing /\ CountedOf(k) > 0
  /\ \E k \in SkipKeys : CountKeyOf(k) \notin hist.failing /\ resumeConfig[k] > 0

\* C9: calculateResumePositions always returns a mapping with exactly the five
\* skip keys, each a non-negative integer, whatever the store and the files do.
C9_ResumeMappingShape ==
  mpc = "seed" =>
    /\ DOMAIN resumeConfig = SkipKeys
    /\ \A k \in SkipKeys : resumeConfig[k] \in Nat

C9_Witness ==
  /\ mpc = "seed"
  /\ hist.failing # {}
  /\ \E k \in SkipKeys : resumeConfig[k] > 0

\* main ran twice from an empty store, every store call and file read succeeding
TwoCleanRuns ==
  /\ run = 2
  /\ mpc = "done"
  /\ hist.clean
  /\ hist.prev = "done"
  /\ hist.prevClean
  /\ hist.store0 = EmptyStore

\* C10 as stated: after the second of two runs from an empty store the store
\* equals the store after the first run.
C10_SecondRunSameStore == TwoCleanRuns => store = hist.store1

\* No two records of one source collection carry the same key.
UniqueSourceKeys ==
  /\ \A j, k \in 1..Len(viuPrograms) : j # k => viuPrograms[j].nid # viuPrograms[k].nid
  /\ \A j, k \in 1..Len(unitGroups) : j # k => unitGroups[j].noc # unitGroups[k].noc
  /\ \A j, k \in 1..Len(outlookRows) :
       j # k => <<outlookRows[j].code, outlookRows[j].region>>
                  # <<outlookRows[k].code, outlookRows[k].region>>

\* The second run leaves the store as the first run left it when no two records
\* of a source collection carry the same key: the difference C10 meets comes
\* from concurrent upserts of one key.
SecondRunSameStoreUniqueKeys ==
  (TwoCleanRuns /\ UniqueSourceKeys) => store = hist.store1

SecondRunUniqueKeysReached ==
  /\ TwoCleanRuns
  /\ UniqueSourceKeys
  /\ Cardinality(store.program) = 2
  /\ store.programNocLink # {}

\* ------------------------------------------------------------------ claims on the seeders
\* The seeder main is running, if any
Running == IF mpc = "seed" /\ entity <= Len(Order) THEN Order[entity] ELSE "none"

\* The record whose processor call settles in this step, as a set (empty when
\* no call settles)
Settling ==
  {data[groups[b].items[groups[b].pos + 1]] :
     b \in {c \in 1..Len(groups) : groups[c].inflight /\ ~groups'[c].inflight}}

C12_ReferencesExist ==
  /\ \A p \in store.program : p.area \in store.programArea
  /\ \A l \in store.programNocLink :
       /\ l.programId \in ProgramKeys(store)
       /\ l.nocCode \in UnitGroupKeys(store)

\* A run on an empty store has written a Program row and a link, while the
\* source also holds a program record without a program area.
C12_Witness ==
  /\ hist.store0 = EmptyStore
  /\ store.program # {}
  /\ store.programNocLink # {}
  /\ \E k \in 1..Len(viuPrograms) : viuPrograms[k].area = 0

\* ------------------------------------------------------------------ claims on main
Names == {Order[k] : k \in 1..Len(Order)}

\* The seeder Order[k] has been invoked in the current run: main went past it,
\* or its executor runs, or it is the one that threw.
Invoked(k) ==
  \/ k < entity
  \/ /\ k = entity
     /\ \/ epc # "idle"
        \/ report = FailureReport(Order[k])

\* The store as it was when the current run started
StoreAtStart == IF run = 1 THEN hist.store0 ELSE hist.store1

\* C13: if the seeder of one entity throws, every later seeder in the
\* dependency order is still invoked in the same run.
C13_LaterSeedersStillInvoked ==
  \A k \in 1..Len(Order) :
    (mpc = "failed" /\ report = FailureReport(Order[k])) =>
      \A j \in (k + 1)..Len(Order) : Invoked(j)

\* C14: whenever main finishes, also after a seeder failed, its report holds
\* a {created, skipped} entry for each of the five entities.
C14_ReportListsEveryEntity ==
  mpc \in {"done", "failed"} =>
    /\ "results" \in DOMAIN report
    /\ DOMAIN report.results = Names
    /\ \A n \in Names : DOMAIN report.results[n] = {"created", "skipped"}

\* C15: the process started from seed.js ends with a non-zero status when
\* main reported success = false, and with status 0 when it reported success.
C15_ExitStatusReflectsSuccess ==
  exitStatus # <<>> =>
    IF report.success THEN exitStatus[1] = 0 ELSE exitStatus[1] # 0

\* C16: if the initial connection test fails, main invokes no seeder, issues
\* no upsert, computes no resume positions, leaves the store as it found it,
\* and reports success = false.
C16_ConnectionFailureStopsEverything ==
  report = FailureReport("Database connection failed") =>
    /\ report.success = FALSE
    /\ ~hist.resumed
    /\ ~hist.upserts
    /\ \A k \in 1..Len(Order) : ~Invoked(k)
    /\ store = StoreAtStart

C16_Witness ==
  /\ mpc = "failed"
  /\ report = FailureReport("Database connection failed")
  /\ viuPrograms # <<>>
  /\ exitStatus # <<>>

\* C17: if a required source file is unreadable, no upsert of any entity is
\* issued in that run.
C17_UnreadableFileNoUpsert ==
  (mpc \in {"seed", "failed", "done"} /\ unreadable # {}) => ~hist.upserts

\* The logged calls of the programs seeder whose upsert ended in a unique
\* constraint violation
UniqueViolated ==
  {k \in 1..Len(issued) :
     \E c \in 1..Len(issued[k].issued) :
       /\ issued[k].issued[c].op = "program.upsert"
       /\ issued[k].issued[c].error = "P2002"}

\* The record a logged call was made on
RecordOf(k) == issued[k].issued[1].nid

\* The record after nid in nid's batch, if there is one
NextInBatch(nid) == IF nid % batchSize # 0 /\ nid < Len(data) THEN {nid + 1} ELSE {}

\* C18: when the upsert of a record fails with a uniqueness violation, the
\* processor does not return 'error' for that record, and once the executor
\* has returned the next record of the same batch has been passed to the
\* processor.
C18_UniqueViolationIsNotError ==
  \A k \in UniqueViolated :
    /\ issued[k].outcome # "error"
    /\ epc = "done" => \A n \in NextInBatch(RecordOf(k)) : calls[n] > 0

\* The second half of C18 alone
UniqueViolationGoesOn ==
  epc = "done" => \A k \in UniqueViolated : \A n \in NextInBatch(RecordOf(k)) : calls[n] > 0

UniqueViolationGoesOnReached ==
  epc = "done" /\ \E k \in UniqueViolated : NextInBatch(RecordOf(k)) # {}

\* The positions in the log of the section upserts a processor call issued
SectionUpserts ==
  {k \in 1..Len(issued) : issued[k].op = "nocSection.upsert"}

\* A unit group record that is not skipped for a missing field was passed to
\* the processor, and the call has returned
UnitGroupProcessed ==
  /\ mpc = "processor"
  /\ probeRow.kind = "unitGroup"
  /\ probeRow.noc # "" /\ probeRow.occupation # ""
  /\ outcome # "none"

\* C19: every time a unit group record with K sections is passed to the
\* processor, K section upserts are issued, one for each (unit-group code,
\* section title) pair of the record, whatever the unit group's own upsert
\* ended in.
C19_SectionFanOutComplete ==
  UnitGroupProcessed =>
    /\ Cardinality(SectionUpserts) = Len(probeRow.sections)
    /\ \A s \in 1..Len(probeRow.sections) :
         \E k \in SectionUpserts :
           issued[k].nocCode = probeRow.noc /\ issued[k].title = probeRow.sections[s]

\* What does hold: the fan-out is complete when the unit group's own upsert
\* returned a row
SectionFanOutAfterRow ==
  (UnitGroupProcessed /\ outcome = "created") =>
    /\ Cardinality(SectionUpserts) = Len(probeRow.sections)
    /\ \A s \in 1..Len(probeRow.sections) :
         \E k \in SectionUpserts :
           issued[k].nocCode = probeRow.noc /\ issued[k].title = probeRow.sections[s]

SectionFanOutAfterRowReached ==
  UnitGroupProcessed /\ outcome = "created" /\ Len(probeRow.sections) = MaxSections

\* An outlook row was passed to the processor and the call has returned
OutlookProcessed ==
  mpc = "processor" /\ probeRow.kind = "outlook" /\ outcome # "none"

\* The positions in the log of the outlook upserts a processor call issued
OutlookUpserts == {k \in 1..Len(issued) : issued[k].op = "outlook.upsert"}

\* The code of the row carries the prefix
HasNocPrefix ==
  /\ Len(probeRow.code) >= Len(NOC_PREFIX)
  /\ \A i \in 1..Len(NOC_PREFIX) : probeRow.code[i] = NOC_PREFIX[i]

\* The code in every upsert key is the row's code without a leading "NOC_"
KeyCodeNormalised ==
  \A k \in OutlookUpserts :
    IF HasNocPrefix THEN probeRow.code = NOC_PREFIX \o issued[k].nocCode
    ELSE issued[k].nocCode = probeRow.code

\* The row is upserted once, with release date 2024-01-01
UpsertedWithDefaultDate ==
  /\ outcome # "skipped"
  /\ Cardinality(OutlookUpserts) = 1
  /\ \A k \in OutlookUpserts : issued[k].releaseDate = "2024-01-01"

\* Region, province and rating are present and the release date is missing
UndatedRow ==
  /\ probeRow.region # "" /\ probeRow.province # "" /\ probeRow.outlook # ""
  /\ probeRow.date = ""

\* C20 as stated: the outlook processor removes a leading "NOC_" from the code
\* before the upsert key is built and leaves a code without the prefix as it
\* is, and a row whose code, region, province and rating are present and whose
\* release date is missing is upserted with release date 2024-01-01, not
\* skipped.
C20_PrefixStrippedDateDefaulted ==
  OutlookProcessed =>
    /\ KeyCodeNormalised
    /\ (UndatedRow /\ probeRow.code # <<>>) => UpsertedWithDefaultDate

\* C20 amended: as above, for rows whose code is more than the bare prefix.
C20_PrefixStrippedDateDefaultedIfCodeLeft ==
  OutlookProcessed =>
    /\ KeyCodeNormalised
    /\ (UndatedRow /\ probeRow.code # <<>> /\ probeRow.code # NOC_PREFIX) =>
         UpsertedWithDefaultDate

C20_Witness ==
  /\ OutlookProcessed
  /\ UndatedRow
  /\ probeRow.code = NOC_PREFIX \o <<"1", "2">>
  /\ issued = <<[op |-> "outlook.upsert", nocCode |-> <<"1", "2">>,
                 economicRegionCode |-> probeRow.region, province |-> probeRow.province,
                 releaseDate |-> "2024-01-01", error |-> "none"]>>
  /\ outcome = "created"

\* ------------------------------------------------------------------ claims on the executor's schedule
\* The positions of data that are handed to the processor
Handed == {k \in 1..Len(data) : k > Dropped(data, skipCount)}

\* The mega-batch a handed position belongs to, counted from 0
MegaOf(k) == (k - Dropped(data, skipCount) - 1) \div (batchSize * PARALLEL_BATCHES)

\* The batch of its mega-batch a handed position belongs to, counted from 0
BatchOf(k) ==
  ((k - Dropped(data, skipCount) - 1) % (batchSize * PARALLEL_BATCHES)) \div batchSize

\* The positions whose processor call is in flight
InFlight ==
  {groups[b].items[groups[b].pos + 1] : b \in {c \in 1..Len(groups) : groups[c].inflight}}

\* The positions whose processor call starts in this step
Starting == {k \in 1..Len(data) : epc = "mega" /\ calls'[k] = calls[k] + 1}

\* C21: no processor call for a record of mega-batch k+1 starts before every
\* processor call of every group of mega-batch k has completed: when a call
\* starts, every record of an earlier mega-batch has been called and is not in
\* flight, and it is never called again.
C21_MegaBatchesSequential ==
  [][ /\ \A p \in Starting : \A q \in Handed :
           MegaOf(q) < MegaOf(p) => (calls[q] >= 1 /\ q \notin InFlight)
      /\ epc = "mega" =>
           \A p \in Handed : \A q \in Handed :
             (MegaOf(q) < MegaOf(p) /\ calls[p] >= 1) => calls'[q] = calls[q] ]_vars

C21_Witness ==
  /\ epc = "mega"
  /\ megaOffset > 0
  /\ tally["throw"] > 0
  /\ \E p \in InFlight : MegaOf(p) = 1 /\ Cardinality(InFlight) = 2

\* Processor calls started so far, and settled so far
StartedCalls == SumSeq(calls)

SettledCalls == tally["created"] + tally["skipped"] + tally["error"] + tally["throw"]

\* C22: at every moment of a call the number of processor calls in flight is
\* at most PARALLEL_BATCHES: a mega-batch is split into at most
\* PARALLEL_BATCHES batches of at most batchSize records, and each batch has
\* at most one call in flight.
C22_InFlightBounded ==
  epc \in {"loop", "mega", "done"} =>
    /\ StartedCalls - SettledCalls <= PARALLEL_BATCHES
    /\ StartedCalls - SettledCalls = Cardinality({b \in 1..Len(groups) : groups[b].inflight})
    /\ Len(groups) <= PARALLEL_BATCHES
    /\ \A b \in 1..Len(groups) : Len(groups[b].items) \in 1..batchSize

C22_Witness ==
  /\ epc = "mega"
  /\ StartedCalls - SettledCalls = PARALLEL_BATCHES
  /\ \A b \in 1..Len(groups) : Len(groups[b].items) = MaxBatch /\ groups[b].pos = 1

\* Two handed positions lie in the same batch of the same mega-batch
SameBatch(p, q) == MegaOf(p) = MegaOf(q) /\ BatchOf(p) = BatchOf(q)

\* C23: within one batch, processor calls are made in source order, and the
\* call for a record starts only after the call for the previous record of the
\* batch has completed: when the call for a record starts, every earlier record
\* of its batch has been called and is not in flight, and no later record of
\* its batch has been called yet.
C23_SourceOrderInBatch ==
  [][ \A p \in Starting : \A q \in Handed :
        SameBatch(p, q) =>
          /\ q < p => (calls[q] >= 1 /\ q \notin InFlight)
          /\ q > p => calls[q] = 0 ]_vars

\* The second half of C23 alone: a call starts only after the calls for the
\* earlier records of its batch have completed
OneAtATimeInBatch ==
  [][ \A p \in Starting : \A q \in Handed :
        (SameBatch(p, q) /\ q < p) => (calls[q] >= 1 /\ q \notin InFlight) ]_vars

OneAtATimeInBatchReached ==
  /\ epc = "mega"
  /\ \E p \in InFlight : \E q \in Handed : SameBatch(p, q) /\ q < p /\ calls[q] = 2

\* The batches whose first pass was left by a throw: the catch block starts
\* over, so the first record of such a batch is called a second time
ThrownBatches == {k \in Handed : calls[k] = 2 /\ \A q \in Handed : SameBatch(k, q) => k <= q}

\* Processor calls that threw in a fallback pass
FallbackThrows == tally["throw"] - Cardinality(ThrownBatches)

\* What C24 says of a call that has returned
ThrowsAbsorbed ==
  epc = "done" =>
    /\ \A k \in Handed : calls[k] >= 1
    /\ ret.skipped = tally["skipped"] + FallbackThrows

\* C24: a processor call that throws never makes processInParallelBatches
\* reject and never prevents another record from being attempted: the call
\* returns, every record after the skip offset has been passed to the
\* processor, and each call that threw in a fallback pass has added exactly
\* one to skipped.
C24_ThrowNeverAborts == []ThrowsAbsorbed /\ <>(epc = "done")

C24_Witness ==
  /\ epc = "done"
  /\ Cardinality(Handed) > batchSize
  /\ FallbackThrows >= 1
  /\ ret.skipped = 1
  /\ \E k \in Handed : calls[k] = 1 /\ \E q \in ThrownBatches : SameBatch(k, q) /\ q < k

\* ------------------------------------------------------------------ claims on store calls
\* The positions in the log where the operation was invoked, and of the waits
Invokes == {i \in 1..Len(issued) : issued[i].op = "invoke"}

Waits == {i \in 1..Len(issued) : issued[i].op = "wait"}

\* The errors the claims call terminal
TerminalErrors == {"P2002", "P2025", "invalid"}

\* The attempts before attempt k all failed with an error that is retried
RetriedBefore(k) ==
  \A j \in 1..(k - 1) : probeRow.errs[j] \notin TerminalErrors \cup {"none"}

\* The operation fails with an error that is retried, whenever it is invoked
KeepsFailing == RetriedBefore(MAX_RETRIES + 1)

\* safeDbOperation has returned
CallReturned == mpc = "retry" /\ outcome # "none"

\* C25: an operation that keeps failing with an error that is not terminal is
\* invoked at most MAX_RETRIES times in total, and then withRetry throws; the
\* wait after the k-th failed attempt is RETRY_DELAY_MS * k and no wait
\* follows the last attempt.
C25_BoundedRetriesLinearBackoff ==
  mpc = "retry" =>
    /\ Cardinality(Invokes) <= MAX_RETRIES
    /\ \A i \in Invokes : issued[i].attempt = Cardinality({j \in Invokes : j <= i})
    /\ \A i \in Waits :
         /\ i - 1 \in Invokes
         /\ issued[i - 1].attempt < MAX_RETRIES
         /\ issued[i].ms = RETRY_DELAY_MS * issued[i - 1].attempt
    /\ (KeepsFailing /\ outcome # "none") =>
         /\ Cardinality(Invokes) = MAX_RETRIES
         /\ Cardinality(Waits) = MAX_RETRIES - 1
         /\ issued[Len(issued)].op = "throw"
         /\ Len(issued) - 1 \in Invokes

C25_Witness ==
  /\ CallReturned
  /\ KeepsFailing
  /\ probeRow.errs[1] = "P2034" /\ probeRow.errs[MAX_RETRIES] = "timeout"
  /\ \E i \in Waits : issued[i].ms = RETRY_DELAY_MS * (MAX_RETRIES - 1)

\* C26: when an attempt fails with P2002, P2025 or an invalid-input error,
\* withRetry throws that error next, with no wait and no further attempt; when
\* it is the first attempt that fails so, the operation is invoked exactly
\* once.
C26_TerminalErrorsNotRetried ==
  mpc = "retry" =>
    /\ \A i \in Invokes :
         (issued[i].error \in TerminalErrors /\ i < Len(issued)) =>
           /\ issued[i + 1].op = "throw"
           /\ issued[i + 1].error = issued[i].error
           /\ \A j \in Invokes : j <= i
    /\ (probeRow.errs[1] \in TerminalErrors /\ outcome # "none") =>
         (Cardinality(Invokes) = 1 /\ Waits = {})

C26_Witness ==
  /\ CallReturned
  /\ probeRow.errs[1] = "invalid"
  /\ probeRow.errs[2] = "none"
  /\ Len(issued) = 2
  /\ issued[2].op = "throw"

\* C27: safeDbOperation never throws: it returns the operation's result when
\* an attempt succeeded before a terminal error and within MAX_RETRIES
\* attempts, and null on every failure.
C27_SafeDbOperationNeverThrows ==
  /\ mpc = "retry" => outcome \in {"none", "row", "null"}
  /\ CallReturned =>
       outcome = (IF \E k \in 1..MAX_RETRIES : probeRow.errs[k] = "none" /\ RetriedBefore(k)
                  THEN "row" ELSE "null")

C27_Witness ==
  /\ CallReturned
  /\ outcome = "null"
  /\ probeRow.errs[1] = "limit" /\ probeRow.errs[2] = "P2002" /\ probeRow.errs[3] = "none"
  /\ Cardinality(Invokes) = 2

\* No processor call of the programs seeder rejects because of its upsert
NoThrowReachesExecutor == mpc = "seeder" => tally["throw"] = 0

\* The step-by-step store call ends as the operators say
StepsAgreeWithOperators ==
  CallReturned =>
    /\ outcome = SafeDbOperation(probeRow.errs)
    /\ Cardinality(Invokes) = WithRetry(probeRow.errs).attempts

\* ------------------------------------------------------------------ claims on checkpoints
\* The number of mega-batches of the call
MegaCount == Cardinality({MegaOf(k) : k \in Handed})

\* The handed records of the first c mega-batches
InFirstMegas(c) == {k \in Handed : MegaOf(k) < c}

\* C28: after each mega-batch and before the next one starts the executor
\* makes one checkpoint: its operation is the operation name, its processed
\* value is the skip offset plus the number of records of the mega-batches
\* completed so far, its total is the length of the source; over one call the
\* processed value is strictly increasing, never exceeds total, and equals
\* total at the last checkpoint.
C28_CheckpointPerMegaBatch ==
  epc \in {"loop", "mega", "done"} =>
    /\ \A p \in InFlight : Len(checkpoints) = MegaOf(p)
    /\ \A k \in Handed : calls[k] >= 1 => Len(checkpoints) >= MegaOf(k)
    /\ epc = "done" => Len(checkpoints) = MegaCount
    /\ \A c \in 1..Len(checkpoints) :
         /\ checkpoints[c].operation = operationName
         /\ checkpoints[c].processed = skipCount + Cardinality(InFirstMegas(c))
         /\ checkpoints[c].total = Len(data)
         /\ checkpoints[c].processed <= checkpoints[c].total
         /\ c > 1 => checkpoints[c - 1].processed < checkpoints[c].processed
    /\ (epc = "done" /\ checkpoints # <<>>) =>
         checkpoints[Len(checkpoints)].processed = Len(data)

C28_Witness ==
  /\ epc = "done"
  /\ skipCount > 0
  /\ Len(checkpoints) = 2
  /\ checkpoints[1].processed < checkpoints[2].processed
  /\ checkpoints[2].processed = Len(data)
  /\ tally["throw"] > 0

\* Some checkpoint write of the call has failed
WriteFailed == \E c \in 1..Len(checkpoints) : ~checkpoints[c].written

\* A checkpoint write fails in this step
WriteFails ==
  /\ epc = "mega"
  /\ Len(checkpoints') = Len(checkpoints) + 1
  /\ ~checkpoints'[Len(checkpoints')].written

\* What the executor has done when it returns after a failed checkpoint write:
\* the records after the skip offset, and no other, have been passed to the
\* processor, and the returned counts are the counts of the results
FailedWriteChangesNothing ==
  (epc = "done" /\ WriteFailed) =>
    /\ \A k \in 1..Len(data) : (calls[k] >= 1) = (k \in Handed)
    /\ ret.created = tally["created"]
    /\ ret.skipped = tally["skipped"] + FallbackThrows

\* The step of a failed checkpoint write: the loop goes on to the next
\* mega-batch with the counters of a successful write
FailedWriteGoesOn ==
  WriteFails =>
    /\ epc' = "loop"
    /\ megaOffset' = megaOffset + batchSize * PARALLEL_BATCHES
    /\ created' = created + SumSeq([b \in 1..Len(groups) |-> groups[b].batchCreated])
    /\ skipped' = skipped + SumSeq([b \in 1..Len(groups) |-> groups[b].batchSkipped])
    /\ calls' = calls /\ tally' = tally
    /\ mpc' = mpc /\ report' = report

\* C29: a failing checkpoint write never makes the executor throw and changes
\* neither which records are passed to the processor nor the returned created
\* and skipped counts: the call returns, and the step of the failed write and
\* the state at the return are those of a successful write.
C29_FailedCheckpointIsHarmless ==
  /\ []FailedWriteChangesNothing
  /\ [][FailedWriteGoesOn]_vars
  /\ <>(epc = "done")

C29_Witness ==
  /\ epc = "done"
  /\ Len(checkpoints) = 2
  /\ ~checkpoints[1].written
  /\ calls[Len(data)] = 1
  /\ ret.created = 1 /\ ret.skipped = 1

\* In main, the step of a failed checkpoint write leaves the run going
FailedWriteLeavesMainRunning == [][WriteFails => (mpc' = "seed" /\ report' = NoReport)]_vars

FailedWriteLeavesMainRunningReached ==
  mpc = "seed" /\ epc = "done" /\ WriteFailed /\ ret.created > 0

\* ------------------------------------------------------------------ claims on the order of the seeders
\* The position of an entity in the fixed order
IndexOf(name) == CHOOSE k \in 1..Len(Order) : Order[k] = name

\* The positions in the log where a seeder was invoked
Invocations == {i \in 1..Len(issued) : issued[i].op = "invoked"}

\* C30: main invokes only the seeders of enabled entities, in the order program
\* areas, programs, unit groups, outlooks, program links; a seeder starts only
\* after calculateResumePositions and the seeder invoked before it have
\* returned; the seeder of a disabled entity is never invoked and its result
\* is {created: 0, skipped: 0}; when main succeeds every enabled seeder has
\* been invoked once.
C30_EnabledSeedersInOrder ==
  mpc \in {"connect", "resume", "plan", "seeder", "done", "failed"} =>
    /\ \A i \in Invocations :
         /\ SEED_CONFIG[issued[i].name]
         /\ i > 1
         /\ issued[1].op = "resumed"
         /\ issued[i - 1].op \in {"resumed", "returned"}
         /\ \A j \in Invocations : j < i => IndexOf(issued[j].name) < IndexOf(issued[i].name)
    /\ mpc = "done" =>
         \A k \in 1..Len(Order) :
           IF SEED_CONFIG[Order[k]]
           THEN Cardinality({i \in Invocations : issued[i].name = Order[k]}) = 1
           ELSE report.results[Order[k]] = [created |-> 0, skipped |-> 0]

C30_Witness ==
  /\ mpc = "done"
  /\ ~SEED_CONFIG["PROGRAM_AREAS"] /\ ~SEED_CONFIG["OUTLOOKS"]
  /\ Cardinality(Invocations) = 3
  /\ report.results["PROGRAMS"].skipped = 1
  /\ report.results["PROGRAM_NOC_LINKS"].created = 1

\* ------------------------------------------------------------------ seedOutlooks, step by step
MaxSheet == 3       \* longest outlook sheet in SpecOutlooks
MaxRegion == 2      \* region codes range over 1..MaxRegion; 0 is an empty cell

\* A data row of the sheet in SpecOutlooks
SheetRecs == [code : 0..1, region : 0..MaxRegion]

\* regionsMap: if (regionCode && !regionsMap.has(regionCode)) regionsMap.set(...),
\* over every row of the sheet: the distinct codes in order of first insertion
RECURSIVE RegionsMap(_)
RegionsMap(rows) ==
  IF rows = <<>> THEN <<>>
  ELSE LET rest == RegionsMap(SubSeq(rows, 1, Len(rows) - 1))
           c == rows[Len(rows)].region
       IN  IF c = 0 \/ (\E k \in 1..Len(rest) : rest[k] = c) THEN rest ELSE Append(rest, c)

InitOutlooks ==
  /\ outlookRows \in SeqsUpTo(SheetRecs, MaxSheet)
  /\ BATCH_SIZE \in 1..MaxBatch
  /\ resumeConfig \in {[ZeroSkips EXCEPT !["SKIP_OUTLOOKS"] = s] : s \in 0..MaxSheet}
  /\ mpc = "outlooks"
  /\ issued = <<>>
  /\ outcome = "none"
  /\ probeRow = NoRow
  /\ data = <<>>
  /\ operationName = ""
  /\ batchSize = 1
  /\ skipCount = 0
  /\ epc = "idle"
  /\ megaOffset = 0
  /\ groups = <<>>
  /\ created = 0
  /\ skipped = 0
  /\ processed = 0
  /\ ret = [created |-> 0, skipped |-> 0]
  /\ checkpoints = <<>>
  /\ calls = <<>>
  /\ tally = [r \in Results |-> 0]
  /\ viuPrograms = <<>>
  /\ unitGroups = <<>>
  /\ hasSomeEmpty = "all"
  /\ tracker = NoTracker
  /\ SEED_CONFIG = AllEnabled
  /\ unreadable = {}
  /\ store = EmptyStore
  /\ entity = 4
  /\ results = NoResults
  /\ run = 1
  /\ faults = 0
  /\ hist = [clean |-> TRUE, errors |-> FALSE, failing |-> {}, counted |-> NoCounts,
             prev |-> "none", prevClean |-> TRUE, prevErrors |-> FALSE, store1 |-> EmptyStore, store0 |-> EmptyStore,
             resumed |-> FALSE, upserts |-> FALSE]
  /\ report = NoReport
  /\ exitStatus = <<>>

\* The region upserts issued so far, and the ones that have settled
RegionIssued == {issued[i].code : i \in {j \in 1..Len(issued) : issued[j].op = "economicRegion.upsert"}}

RegionSettled == {issued[i].code : i \in {j \in 1..Len(issued) : issued[j].op = "settled"}}

othersOfOutlooks == <<viuPrograms, unitGroups, outlookRows, unreadable, entity, resumeConfig,
                      results, run, faults, hist, BATCH_SIZE, SEED_CONFIG, hasSomeEmpty,
                      entryVars, probeRow, outcome>>

\* regions.map(async region => await safeDbOperation(() => upsert)): each
\* callback runs to its first pending await, so every upsert is issued
\* before map returns
OutlooksFanOut ==
  /\ mpc = "outlooks"
  /\ issued' = [k \in 1..Len(RegionsMap(outlookRows)) |->
                  [op |-> "economicRegion.upsert", code |-> RegionsMap(outlookRows)[k]]]
  /\ mpc' = "regions"
  /\ UNCHANGED <<othersOfOutlooks, tracker, store, execVars>>

\* One region upsert settles: safeDbOperation returns the row, or null
RegionSettle ==
  /\ mpc = "regions"
  /\ \E c \in RegionIssued \ RegionSettled, ok \in BOOLEAN :
       /\ issued' = Append(issued, [op |-> "settled", code |-> c])
       /\ store' = IF ok THEN [store EXCEPT !.economicRegion = @ \cup {c}] ELSE store
       /\ tracker' = SafeDbTracker(tracker, ok)
  /\ UNCHANGED <<othersOfOutlooks, mpc, execVars>>

\* Mutant: the executor is called as soon as the upserts are issued.
RegionsJoin_NoAwait ==
  /\ mpc = "regions"
  /\ ExecBegin(Stamped(outlookRows), BATCH_SIZE, "Outlooks", resumeConfig["SKIP_OUTLOOKS"])
  /\ mpc' = "rows"
  /\ UNCHANGED <<othersOfOutlooks, tracker, store, issued>>

\* await Promise.all(regionPromises), then
\* return await processInParallelBatches(outlookObjects, BATCH_SIZE, processor, 'Outlooks', skipCount)
RegionsJoin ==
  /\ mpc = "regions"
  /\ RegionIssued \subseteq RegionSettled
  /\ ExecBegin(Stamped(outlookRows), BATCH_SIZE, "Outlooks", resumeConfig["SKIP_OUTLOOKS"])
  /\ mpc' = "rows"
  /\ UNCHANGED <<othersOfOutlooks, tracker, store, issued>>

OutlooksMegaStart ==
  /\ mpc = "rows"
  /\ MegaStart
  /\ UNCHANGED <<othersOfOutlooks, tracker, store, mpc, issued>>

OutlooksCallStart ==
  /\ mpc = "rows"
  /\ \E b \in 1..PARALLEL_BATCHES : CallStart(b)
  /\ UNCHANGED <<othersOfOutlooks, tracker, store, mpc, issued>>

OutlooksCallEnd ==
  /\ mpc = "rows"
  /\ \E b \in 1..PARALLEL_BATCHES :
       /\ b <= Len(groups)
       /\ groups[b].inflight
       /\ \E out \in OutlookProcessor(data[groups[b].items[groups[b].pos + 1]], store) :
            /\ store' = out.store
            /\ tracker' = ProcessorTracker(tracker, "OUTLOOKS",
                                           data[groups[b].items[groups[b].pos + 1]], out)
            /\ CallEnd(b, out.res)
  /\ UNCHANGED <<othersOfOutlooks, mpc, issued>>

OutlooksMegaJoin ==
  /\ mpc = "rows"
  /\ \E written \in BOOLEAN : MegaJoin(written)
  /\ UNCHANGED <<othersOfOutlooks, tracker, store, mpc, issued>>

OutlooksExecReturn ==
  /\ mpc = "rows"
  /\ ExecReturn
  /\ UNCHANGED <<othersOfOutlooks, tracker, store, mpc, issued>>

NextOutlooks ==
  \/ OutlooksFanOut
  \/ RegionSettle
  \/ RegionsJoin
  \/ OutlooksMegaStart
  \/ OutlooksCallStart
  \/ OutlooksCallEnd
  \/ OutlooksMegaJoin
  \/ OutlooksExecReturn

SpecOutlooks == InitOutlooks /\ [][NextOutlooks]_vars

\* ------------------------------------------------------------------ claims on the region fan-out
\* The region upserts issued for code c
RegionUpsertsOf(c) ==
  {i \in 1..Len(issued) : issued[i].op = "economicRegion.upsert" /\ issued[i].code = c}

\* C31: in seedOutlooks one upsert is issued for every distinct region code of
\* the whole outlook source, whatever the outlook skip offset is, and all of
\* these upserts have settled before the first outlook row is passed to the
\* processor.
C31_RegionsBeforeRows ==
  mpc \in {"regions", "rows"} =>
    /\ \A c \in 1..MaxRegion :
         Cardinality(RegionUpsertsOf(c)) = (IF c \in RegionsOf(outlookRows) THEN 1 ELSE 0)
    /\ (mpc = "rows" /\ StartedCalls > 0) => RegionsOf(outlookRows) \subseteq RegionSettled

C31_Witness ==
  /\ mpc = "rows"
  /\ skipCount = 2
  /\ Len(outlookRows) = 3
  /\ outlookRows[1].region = 2 /\ outlookRows[2].region = 2 /\ outlookRows[3].region = 1
  /\ calls[3] = 1
  /\ RegionSettled = {1, 2}
  /\ store.economicRegion = {1}

\* ------------------------------------------------------------------ claims on the counters
\* The logged processor calls whose upsert ended as told by ok
UpsertCalls(ok) ==
  {k \in 1..Len(issued) :
     \E c \in 1..Len(issued[k].issued) :
       /\ issued[k].issued[c].op = "program.upsert"
       /\ (issued[k].issued[c].error = "none") = ok}

\* The calls of incrementCreated() made so far: one by safeDbOperation for
\* each upsert that returned
IncrementCreatedCalls == Cardinality(UpsertCalls(TRUE))

\* The calls of incrementSkipped() made so far: one by the processor for each
\* record it skipped, one by safeDbOperation for each upsert that failed
IncrementSkippedCalls ==
  Cardinality({k \in 1..Len(issued) : issued[k].outcome = "skipped"})
    + Cardinality(UpsertCalls(FALSE))

\* The counts of the batches of the running mega-batch
GroupCreated == SumSeq([b \in 1..Len(groups) |-> groups[b].batchCreated])

GroupSkipped == SumSeq([b \in 1..Len(groups) |-> groups[b].batchSkipped])

ProgramsSeeded ==
  /\ mpc \in {"seed", "done"}
  /\ \/ entity > 2
     \/ entity = 2 /\ epc = "done"

\* Two records of the programs file carry one key, the programs seeder started
\* at the first record, every store call of the run succeeded and both records
\* name a program area of the store
TwoRecordsOneKey(j, k) ==
  /\ j < k
  /\ viuPrograms[j].nid = viuPrograms[k].nid
  /\ viuPrograms[j].area \in store.programArea
  /\ viuPrograms[k].area \in store.programArea
  /\ resumeConfig["SKIP_PROGRAMS"] = 0
  /\ hist.clean

\* The Program row of the key of record k holds the attributes of record k
RowIsOf(k) == \A r \in store.program : r.nid = viuPrograms[k].nid => r.v = k

\* C33: if two records of a seeder's source collection carry the same key,
\* the row stored after the run holds the non-key attributes of the record
\* that comes later in source order, for every interleaving of the concurrent
\* groups.
C33_LaterRecordWins ==
  ProgramsSeeded =>
    \A j, k \in 1..Len(viuPrograms) : TwoRecordsOneKey(j, k) => RowIsOf(k)

\* What does hold: the later record wins when both are in one batch
LaterRecordWinsInOneBatch ==
  (ProgramsSeeded /\ BATCH_SIZE >= 2) =>
    \A j, k \in 1..Len(viuPrograms) : TwoRecordsOneKey(j, k) => RowIsOf(k)

LaterRecordWinsInOneBatchReached ==
  /\ ProgramsSeeded
  /\ BATCH_SIZE >= 2
  /\ hist.store0 = EmptyStore
  /\ \E j, k \in 1..Len(viuPrograms) : TwoRecordsOneKey(j, k) /\ [nid |-> viuPrograms[k].nid, area |-> viuPrograms[k].area, nocs |-> viuPrograms[k].nocs, v |-> k] \in store.program

\* ------------------------------------------------------------------ claims on skipped records
\* A processor call returns 'skipped' in this step
ReturnsSkipped == mpc = "seed" /\ epc = "mega" /\ tally'["skipped"] = tally["skipped"] + 1

\* C34: for every seeder, when the processor returns 'skipped' for a record,
\* no upsert has been issued for that record and the store is left unchanged
\* by it: the step of the return leaves every table as it was, and the only
\* tracker call of the record is the processor's own incrementSkipped(), so
\* no safeDbOperation ran for it.
C34_SkippedIssuesNoUpsert ==
  [][ ReturnsSkipped =>
        /\ store' = store
        /\ hist'.upserts = hist.upserts
        /\ tracker'.totalRecordsCreated = tracker.totalRecordsCreated
        /\ tracker'.totalRecordsSkipped = tracker.totalRecordsSkipped + 1 ]_vars

C34_Witness ==
  /\ Running = "PROGRAM_NOC_LINKS"
  /\ tally["skipped"] = 2
  /\ Cardinality(store.program) = 2
  /\ store.programNocLink = {}
  /\ tracker.totalRecordsCreated = 4
  /\ tracker.totalRecordsSkipped = 2

\* Call by call: an outlook row or a unit group record that is skipped has
\* issued no store call
SkippedIssuesNothing == (mpc = "processor" /\ outcome = "skipped") => issued = <<>>

SkippedIssuesNothingReached ==
  /\ mpc = "processor"
  /\ outcome = "skipped"
  /\ probeRow.kind = "unitGroup"
  /\ probeRow.noc # ""
  /\ tracker.totalRecordsSkipped = 1

\* ------------------------------------------------------------------ claims on the write path
\* The keys of each table of a store
KeysOf(st) ==
  [programArea |-> st.programArea,
   program |-> ProgramKeys(st),
   nocUnitGroup |-> UnitGroupKeys(st),
   nocSection |-> {<<r.noc, r.title>> : r \in st.nocSection},
   economicRegion |-> st.economicRegion,
   outlook |-> OutlookKeys(st),
   programNocLink |-> {<<r.programId, r.nocCode>> : r \in st.programNocLink}]

\* No table holds two rows with one key
KeysUnique ==
  /\ Cardinality(store.program) = Cardinality(ProgramKeys(store))
  /\ Cardinality(store.nocUnitGroup) = Cardinality(UnitGroupKeys(store))
  /\ Cardinality(store.outlook) = Cardinality(OutlookKeys(store))

\* A step keeps every key of every table
KeysKept == \A t \in DOMAIN KeysOf(store) : KeysOf(store)[t] \subseteq KeysOf(store')[t]

\* C35: no operation of the pipeline removes a row: across every step of a
\* run the set of keys present in the store for each entity never shrinks,
\* and every write is an upsert keyed by the entity's unique key, so no table
\* ever holds two rows with one key.
C35_NoRowRemoved == []KeysUnique /\ [][KeysKept]_vars

\* A run on a store that held rows has overwritten one of them and the other
\* row is still there
C35_Witness ==
  /\ hist.store0 = StoreWith(MaxStale)
  /\ Cardinality(store.program) = MaxStale
  /\ \E r \in store.program : r.v # 0
  /\ \E r \in store.program : r.v = 0

\* ------------------------------------------------------------------ claims on the width of codes
\* The width the legacy script pads classification codes to: padStart(5, '0')
CODE_WIDTH == 5

\* C36: classification codes are zero-padded to the fixed width of 5
\* characters before they are used as keys: no outlook row is written with a
\* code shorter than 5 characters.
C36_CodesPaddedToWidth ==
  mpc = "processor" =>
    \A k \in OutlookUpserts : Len(issued[k].nocCode) >= CODE_WIDTH

\* What the processors do: the outlook key carries the code of the cell
\* without its prefix and the unit group key the noc_number as it stands, at
\* whatever length
CodesWrittenAsRead ==
  mpc = "processor" =>
    /\ \A k \in OutlookUpserts : issued[k].nocCode = StripNocPrefix(probeRow.code)
    /\ \A k \in 1..Len(issued) :
         issued[k].op = "nocUnitGroup.upsert" => issued[k].nocCode = probeRow.noc

CodesWrittenAsReadReached ==
  /\ OutlookProcessed
  /\ outcome = "created"
  /\ probeRow.code = NOC_PREFIX \o <<"1", "2">>
  /\ \E k \in OutlookUpserts : Len(issued[k].nocCode) = 2

\* ------------------------------------------------------------------ claims on the source sizes
\* The executor of seeder e runs on the collection the seeder passed to it
Passed(e) == mpc = "seed" /\ entity = e /\ epc # "idle"

\* C37: for each of the five entities, the source size against which
\* validateSkipValues caps the skip value equals the length of the collection
\* that the entity's seeder passes to processInParallelBatches in the same
\* run. Stated for runs from an empty store in which every store call
\* succeeds and the store answers the links seeder's filter with every
\* Program row.
C37_CapSizeIsPassedLength ==
  \A e \in 1..Len(Order) :
    (Passed(e) /\ hist.clean /\ hist.store0 = EmptyStore /\ hasSomeEmpty = "all" /\ run = 1) =>
      Len(data) = SizeOf(SkipKeyOf(Order[e]))

\* What does hold: the four seeders that read a file pass a collection of the
\* size validateSkipValues derived from that file
CapSizeIsPassedLengthForFiles ==
  \A e \in 1..Len(Order) :
    (Passed(e) /\ Order[e] # "PROGRAM_NOC_LINKS") => Len(data) = SizeOf(SkipKeyOf(Order[e]))

CapSizeIsPassedLengthForFilesReached ==
  /\ Passed(1)
  /\ Len(viuPrograms) = 2
  /\ viuPrograms[1].area = 1 /\ viuPrograms[2].area = 1
  /\ Len(data) = 1
  /\ resumeConfig["SKIP_PROGRAM_AREAS"] = 1

\* ------------------------------------------------------------------ claims on the reported totals
\* The sum of one counter over the per-entity results
ResultsSum(res, field) ==
  res["PROGRAM_AREAS"][field] + res["PROGRAMS"][field] + res["NOC_UNIT_GROUPS"][field]
    + res["OUTLOOKS"][field] + res["PROGRAM_NOC_LINKS"][field]

\* C38: when main succeeds, the totals of the progress tracker in its report
\* agree with the per-entity results: totalCreated is the sum of the entities'
\* created counts and totalSkipped the sum of their skipped counts. Stated for
\* first runs from an empty store in which every store call succeeds.
C38_TotalsAgreeWithResults ==
  (mpc = "done" /\ hist.clean /\ hist.store0 = EmptyStore /\ run = 1) =>
    /\ report.stats.totalCreated = ResultsSum(report.results, "created")
    /\ report.stats.totalSkipped = ResultsSum(report.results, "skipped")

\* What does hold: the tracker counts every upsert that succeeded, the results
\* every record whose processor returned 'created', so the reported total is
\* never below the sum
TotalCreatedCoversResults ==
  mpc = "done" => report.stats.totalCreated >= ResultsSum(report.results, "created")

TotalCreatedCoversResultsReached ==
  /\ mpc = "done"
  /\ report.stats.totalCreated = 3
  /\ ResultsSum(report.results, "created") = 1
  /\ report.results["NOC_UNIT_GROUPS"].created = 1

\* ------------------------------------------------------------------ claims on the number of mega-batches
\* Math.ceil(a / b) for an integer a and a positive integer b
Ceil(a, b) == -((-a) \div b)

\* The mega-batches the call has completed: one checkpoint is made after each
MegaBatchesDone == Len(checkpoints)

\* The call has returned
Returned == epc = "done"

\* C39 as stated: the call returns after exactly
\* ceil((length - skip offset) / (batchSize * PARALLEL_BATCHES)) mega-batches
C39_MegaBatchesOfDifference ==
  Returned => MegaBatchesDone = Ceil(Len(data) - skipCount, batchSize * PARALLEL_BATCHES)

\* C39: for every finite input, every skip offset, positive batch size and
\* parallelism degree and a processor whose calls all settle,
\* processInParallelBatches returns, and it returns after exactly
\* ceil(n / (batchSize * PARALLEL_BATCHES)) mega-batches, where n is the
\* number of records that remain after the skip offset: length - skip offset
\* when the offset is within the input, 0 when the offset is beyond it.
C39_ReturnsAfterCeilMegaBatches ==
  /\ <>Returned
  /\ [](Returned =>
          MegaBatchesDone = Ceil(Len(ActualData(data, skipCount)), batchSize * PARALLEL_BATCHES))

C39_Witness ==
  /\ Returned
  /\ Len(data) = 4
  /\ skipCount = 1
  /\ batchSize = 1
  /\ MegaBatchesDone = 2
  /\ tally["throw"] > 0

\* ------------------------------------------------------------------ claims on the end of main
\* The calls of disconnect() main has made in this run
DisconnectCalls == Cardinality({i \in 1..Len(issued) : issued[i].op = "$disconnect"})

\* The promise of main has settled
MainSettled == exitStatus # <<>>

\* A processor call or a batch of the executor is still under way
SeedingUnderWay ==
  \/ epc \in {"loop", "mega"}
  \/ \E b \in 1..Len(groups) : groups[b].inflight

\* This step is a call of disconnect()
CallsDisconnect == DisconnectCalls' = DisconnectCalls + 1

\* C40: main never rejects, and on every path (success, failed connection
\* test, throwing seeder) it has called disconnect exactly once when its
\* promise settles; the call comes after main has returned from its try or
\* its catch, when no batch and no processor call of the run is under way,
\* and nothing is written to the store or counted after it in that run.
C40_DisconnectOnceAtTheEnd ==
  /\ [](MainSettled => (exitStatus = <<ExitStatusOf("resolved")>> /\ DisconnectCalls = 1))
  /\ [](DisconnectCalls <= 1)
  /\ [][CallsDisconnect => (mpc \in {"done", "failed"} /\ report # NoReport /\ ~SeedingUnderWay)]_vars
  /\ [][(DisconnectCalls = 1 /\ run' = run) =>
          (store' = store /\ tracker' = tracker /\ results' = results /\ ~SeedingUnderWay')]_vars

\* A seeder threw after an earlier seeder had written rows, $disconnect
\* itself failed, and main has resolved
C40_Witness ==
  /\ MainSettled
  /\ mpc = "failed"
  /\ report = FailureReport("PROGRAM_NOC_LINKS")
  /\ issued = <<DisconnectEvent(FALSE)>>
  /\ hist.store0 = EmptyStore
  /\ store.program # {}
  /\ results["PROGRAMS"].created > 0

====
